---- MODULE Spec2Model ----
(***************************************************************************)
(* Treelite: the model builder (model_builder.cc), the tree container      *)
(* (tree.h, detail/tree.h) and the versioned serializer (serializer.cc).   *)
(*                                                                         *)
(* Node ids are 0-based in the source; a column of a tree is a sequence,   *)
(* so the entry of node nid is column[nid + 1].                            *)
(***************************************************************************)
EXTENDS Integers, Sequences, FiniteSets, TLC

(***************************************************************************)
(* Bounds of the model and the inputs the callers draw from                *)
(***************************************************************************)
\* StartNode calls a caller makes on one builder
MaxNode == 2
\* node statistics a caller records through one builder
MaxStat == 1
\* trees a caller starts beyond the declared num_tree
MaxExtraTree == 1
\* optional fields a newer writer puts in one extension slot
MaxOpt == 2
\* serializations of one committed model
MaxSerialize == 2

\* the running Treelite version
TREELITE_VER_MAJOR == 4
TREELITE_VER_MINOR == 0
TREELITE_VER_PATCH == 0

\* user keys passed to StartNode
NodeKeys == {-1, 0, 1}
\* (left_child_key, right_child_key) passed to NumericalTest
NumericalChildKeys == {<<1, 2>>, <<1, 1>>, <<-1, 0>>}
\* (left_child_key, right_child_key) passed to CategoricalTest
CategoricalChildKeys == {<<1, 2>>}
\* split_index passed to the test setters (the last one is INT32_MAX)
SplitIndices == {0, 2147483647}
\* category_list passed to CategoricalTest
CategoryLists == {<<5, 2>>, <<5, 5, 2>>}
\* leaf vectors passed to LeafVector
LeafVectors == {<<1, 2>>}
\* TypeInfo of the element type of a leaf vector / of the builder
FloatTypes == {"kFloat32", "kFloat64"}

\* values an uninitialized float of a Model may hold
IndeterminateFloats == {1, 7}
\* values the uninitialized current_node_id_ of a new builder may hold
IndeterminateInts == {0, 9}

\* char arrays: "{}", "sigmoid" and "exponential_standard_ratio"
STR_empty_json == <<123, 125>>
STR_sigmoid == <<115, 105, 103, 109, 111, 105, 100>>
STR_exponential_standard_ratio ==
  <<101, 120, 112, 111, 110, 101, 110, 116, 105, 97, 108, 95, 115, 116, 97, 110,
    100, 97, 114, 100, 95, 114, 97, 116, 105, 111>>

(***************************************************************************)
(* Tree (tree.h, detail/tree.h), its node fields kept column-wise          *)
(***************************************************************************)
\* Tree(): a default-constructed tree
NewTree ==
  [ num_nodes |-> 0, has_categorical_split_ |-> FALSE,
    node_type_ |-> <<>>, cleft_ |-> <<>>, cright_ |-> <<>>,
    split_index_ |-> <<>>, default_left_ |-> <<>>, leaf_value_ |-> <<>>,
    threshold_ |-> <<>>, cmp_ |-> <<>>, category_list_right_child_ |-> <<>>,
    leaf_vector_ |-> <<>>, leaf_vector_begin_ |-> <<>>, leaf_vector_end_ |-> <<>>,
    matching_categories_ |-> <<>>, matching_categories_offset_ |-> <<>>,
    data_count_ |-> <<>>, data_count_present_ |-> <<>>,
    sum_hess_ |-> <<>>, sum_hess_present_ |-> <<>>,
    gain_ |-> <<>>, gain_present_ |-> <<>>,
    num_opt_field_per_tree_ |-> 0, num_opt_field_per_node_ |-> 0 ]

\* nodes_.Resize(size + 1); nodes_.Back().Init()
PushInitNode(t) ==
  [ t EXCEPT
      !.node_type_ = Append(@, "kLeafNode"),
      !.cleft_ = Append(@, -1),
      !.cright_ = Append(@, -1),
      !.split_index_ = Append(@, 0),
      !.default_left_ = Append(@, FALSE),
      !.leaf_value_ = Append(@, 0),
      !.threshold_ = Append(@, 0),
      !.cmp_ = Append(@, "kNone"),
      !.category_list_right_child_ = Append(@, FALSE),
      !.data_count_ = Append(@, 0),
      !.data_count_present_ = Append(@, FALSE),
      !.sum_hess_ = Append(@, 0),
      !.sum_hess_present_ = Append(@, FALSE),
      !.gain_ = Append(@, 0),
      !.gain_present_ = Append(@, FALSE) ]

\* Tree::SetLeaf
SetLeaf(t, nid, value) ==
  [ t EXCEPT
      !.leaf_value_[nid + 1] = value,
      !.cleft_[nid + 1] = -1,
      !.cright_[nid + 1] = -1,
      !.node_type_[nid + 1] = "kLeafNode" ]

\* Tree::Init: a tree of one root node, a leaf of value 0
TreeInit(t) ==
  LET t1 == [ PushInitNode([ NewTree EXCEPT !.has_categorical_split_ = FALSE ]) EXCEPT
                !.num_nodes = 1,
                !.leaf_vector_begin_ = <<0>>,
                !.leaf_vector_end_ = <<0>>,
                !.matching_categories_offset_ = <<0, 0>> ]
  IN  SetLeaf(t1, 0, 0)

\* Tree::AllocNode: [ok, t, nd]; the throw comes after num_nodes++
AllocNode(t) ==
  LET nd == t.num_nodes
      t1 == [ t EXCEPT !.num_nodes = nd + 1 ]
  IN  IF Len(t.node_type_) # nd
        THEN [ ok |-> FALSE, t |-> t1, nd |-> nd ]
        ELSE [ ok |-> TRUE, nd |-> nd,
               t |-> PushInitNode(
                 [ t1 EXCEPT
                     !.leaf_vector_begin_ = Append(@, 0),
                     !.leaf_vector_end_ = Append(@, 0),
                     !.matching_categories_offset_ = Append(@, @[Len(@)]) ]) ]

\* unsigned(split_index) >= (1U << 31U) - 1, for an int32 split_index
SplitIndexTooBig(split_index) == split_index < 0 \/ split_index >= 2147483647

\* Tree::SetNumericalSplit (SetNumericalTest in the builder): [ok, t]
SetNumericalSplit(t, nid, split_index, threshold, default_left, cmp) ==
  IF SplitIndexTooBig(split_index)
    THEN [ ok |-> FALSE, t |-> t ]
    ELSE [ ok |-> TRUE,
           t |-> [ t EXCEPT
                     !.split_index_[nid + 1] = split_index,
                     !.default_left_[nid + 1] = default_left,
                     !.threshold_[nid + 1] = threshold,
                     !.cmp_[nid + 1] = cmp,
                     !.node_type_[nid + 1] = "kNumericalTestNode",
                     !.category_list_right_child_[nid + 1] = FALSE ] ]

\* std::sort(first, last) of a range of the pool
StdSort(s) == SortSeq(s, LAMBDA a, b : a < b)

\* Tree::SetCategoricalSplit (SetCategoricalTest in the builder): [ok, t]
SetCategoricalSplit(t, nid, split_index, default_left, categories_list, categories_list_right_child) ==
  LET oft == t.matching_categories_offset_
      end_oft == oft[Len(oft)]
      new_end_oft == end_oft + Len(categories_list)
      size == Len(t.matching_categories_)
      tailEqual == \A k \in (nid + 2)..Len(oft) : oft[k] = end_oft
      pool == t.matching_categories_ \o categories_list
  IN  IF SplitIndexTooBig(split_index) \/ end_oft # size \/ ~tailEqual
        THEN [ ok |-> FALSE, t |-> t ]
        ELSE [ ok |-> TRUE,
               t |-> [ t EXCEPT
                 !.matching_categories_ =
                    SubSeq(pool, 1, end_oft) \o StdSort(SubSeq(pool, end_oft + 1, Len(pool))),
                 !.matching_categories_offset_ =
                    [ k \in 1..Len(oft) |-> IF k >= nid + 2 THEN new_end_oft ELSE oft[k] ],
                 !.split_index_[nid + 1] = split_index,
                 !.default_left_[nid + 1] = default_left,
                 !.node_type_[nid + 1] = "kCategoricalTestNode",
                 !.category_list_right_child_[nid + 1] = categories_list_right_child,
                 !.has_categorical_split_ = TRUE ] ]

\* Tree::SetLeafVector
SetLeafVector(t, nid, node_leaf_vector) ==
  LET begin == Len(t.leaf_vector_)
      end == begin + Len(node_leaf_vector)
  IN  [ t EXCEPT
          !.leaf_vector_ = @ \o node_leaf_vector,
          !.leaf_vector_begin_[nid + 1] = begin,
          !.leaf_vector_end_[nid + 1] = end,
          !.cleft_[nid + 1] = -1,
          !.cright_[nid + 1] = -1,
          !.node_type_[nid + 1] = "kLeafNode" ]

\* Tree::SetChildren
SetChildren(t, nid, cleft, cright) ==
  [ t EXCEPT !.cleft_[nid + 1] = cleft, !.cright_[nid + 1] = cright ]

\* Tree::IsLeaf
IsLeaf(t, nid) == t.cleft_[nid + 1] = -1

\* Tree::SetGain / SetDataCount / SetSumHess
SetGain(t, nid, gain) ==
  [ t EXCEPT !.gain_[nid + 1] = gain, !.gain_present_[nid + 1] = TRUE ]

SetDataCount(t, nid, data_count) ==
  [ t EXCEPT !.data_count_[nid + 1] = data_count, !.data_count_present_[nid + 1] = TRUE ]

SetSumHess(t, nid, sum_hess) ==
  [ t EXCEPT !.sum_hess_[nid + 1] = sum_hess, !.sum_hess_present_[nid + 1] = TRUE ]

(***************************************************************************)
(* Model (tree.h) and the builder's inputs (model_builder.h, metadata.cc)  *)
(***************************************************************************)
VARIABLES
  builder,    \* the ModelBuilderImpl object
  err,        \* the treelite::Error the last call on the builder threw, or "none"
  committed,  \* <<m>>: the Model returned by CommitModel; <<>> before
  started,    \* the keys of the StartNode calls accepted since the last StartTree
  nStartNode, \* the StartNode calls the builder has accepted
  inflight,   \* the stream or framed buffer written last and not yet read
  loaded,     \* the outcome of the last deserialization
  nSerialize, \* the serializations of the committed model
  ctor,       \* the arguments of a builder under construction and what became of them
  gtil        \* a gtil::Predict call: model, input, configuration, workers, output

\* Model::Model() followed by Model::Create<ThresholdT, LeafOutputT>();
\* sigmoid_alpha and ratio_c have no initializer
NewModel(threshold_type, leaf_output_type, alpha0, ratio0) ==
  [ major_ver_ |-> TREELITE_VER_MAJOR, minor_ver_ |-> TREELITE_VER_MINOR,
    patch_ver_ |-> TREELITE_VER_PATCH,
    threshold_type_ |-> "kInvalid", leaf_output_type_ |-> "kInvalid",
    num_tree_ |-> 0, num_opt_field_per_model_ |-> 0,
    variant_threshold |-> threshold_type, variant_leaf_output |-> leaf_output_type,
    num_feature |-> 0, task_type |-> "kBinaryClf", average_tree_output |-> FALSE,
    num_target |-> 0, num_class |-> <<>>, leaf_vector_shape |-> <<>>,
    target_id |-> <<>>, class_id |-> <<>>,
    postprocessor |-> <<>>, sigmoid_alpha |-> alpha0, ratio_c |-> ratio0,
    base_scores |-> <<>>, attributes |-> <<>>,
    trees |-> <<>> ]

\* x < y for an int32 x and a uint32 y: x is converted to uint32, which
\* makes a negative x larger than any y the model holds
CheckLtU32(x, y) == x >= 0 /\ x < y

\* max_element of a non-empty sequence
MaxElement(s) == CHOOSE x \in { s[i] : i \in 1..Len(s) } : \A i \in 1..Len(s) : s[i] <= x

\* detail::ConfigurePredTransform; config is the parsed config_json,
\* a function from its member names to their values
ConfigurePredTransform(model, pred_transform) ==
  LET cfg == pred_transform.config
      m1 == IF pred_transform.name = STR_sigmoid
              THEN [ model EXCEPT !.sigmoid_alpha =
                       IF "sigmoid_alpha" \in DOMAIN cfg THEN cfg["sigmoid_alpha"] ELSE 1 ]
              ELSE model
  IN  IF pred_transform.name = STR_exponential_standard_ratio
        THEN [ m1 EXCEPT !.ratio_c =
                 IF "ratio_c" \in DOMAIN cfg THEN cfg["ratio_c"] ELSE 1 ]
        ELSE m1

\* std::map<int, int>: a function from the keys present to their values
EmptyMap == [ k \in {} |-> 0 ]

\* map[key] = value
MapAssign(map, key, value) ==
  [ k \in DOMAIN map \cup {key} |-> IF k = key THEN value ELSE map[k] ]

\* map[key] as an rvalue: operator[] inserts a value-initialized entry
\* for a key that is absent
MapSubscript(map, key) ==
  IF key \in DOMAIN map THEN map ELSE MapAssign(map, key, 0)

\* ModelBuilderImpl::ModelBuilderImpl: [ok, b]
ModelBuilderImpl(type, metadata, tree_annotation, pred_transform, base_scores, attributes, alpha0, ratio0, node_id0) ==
  LET num_tree == tree_annotation.num_tree
      num_target == metadata.num_target
      targetOk == \A i \in 1..num_tree : CheckLtU32(tree_annotation.target_id[i], num_target)
      classOk == \A i \in 1..num_tree :
                    CheckLtU32(tree_annotation.class_id[i],
                               metadata.num_class[tree_annotation.target_id[i] + 1])
      max_num_class == MaxElement(metadata.num_class)
      m == ConfigurePredTransform(
             [ NewModel(type, type, alpha0, ratio0) EXCEPT
                 !.num_feature = metadata.num_feature,
                 !.task_type = metadata.task_type,
                 !.average_tree_output = metadata.average_tree_output,
                 !.num_target = num_target,
                 !.num_class = metadata.num_class,
                 !.leaf_vector_shape = metadata.leaf_vector_shape,
                 !.target_id = tree_annotation.target_id,
                 !.class_id = tree_annotation.class_id,
                 !.postprocessor = pred_transform.name,
                 !.base_scores = base_scores,
                 !.attributes = IF attributes = <<>> THEN <<>> ELSE attributes[1] ],
             pred_transform)
  IN  [ ok |-> targetOk /\ classOk /\ Len(base_scores) = num_target * max_num_class,
        b |-> [ LeafOutputT |-> type,
                expected_num_tree_ |-> num_tree,
                model_ |-> <<m>>,
                current_tree_ |-> NewTree,
                node_id_map_ |-> EmptyMap,
                current_node_id_ |-> node_id0,
                current_state_ |-> "kExpectTree" ] ]

\* InitializeModel without the check of leaf_output_type against threshold_type
InitializeModelAnyLeafType(threshold_type, leaf_output_type, metadata, tree_annotation, pred_transform, base_scores, attributes, alpha0, ratio0, node_id0) ==
  LET r == ModelBuilderImpl(threshold_type, metadata, tree_annotation, pred_transform,
                            base_scores, attributes, alpha0, ratio0, node_id0)
  IN  [ ok |-> threshold_type \in {"kFloat32", "kFloat64"} /\ r.ok, b |-> r.b ]

\* model_builder::InitializeModel: [ok, b]
InitializeModel(threshold_type, leaf_output_type, metadata, tree_annotation, pred_transform, base_scores, attributes, alpha0, ratio0, node_id0) ==
  LET r == ModelBuilderImpl(threshold_type, metadata, tree_annotation, pred_transform,
                            base_scores, attributes, alpha0, ratio0, node_id0)
  IN  [ ok |-> /\ threshold_type \in {"kFloat32", "kFloat64"}
               /\ leaf_output_type = threshold_type
               /\ r.ok,
        b |-> r.b ]

\* the arguments of InitializeModel the callers of the model use
BuilderConfigs ==
  { [ type |-> "kFloat32",
      metadata |-> [ num_feature |-> 2, task_type |-> "kRegressor",
                     average_tree_output |-> FALSE, num_target |-> 1,
                     num_class |-> <<1>>, leaf_vector_shape |-> <<1, 1>> ],
      tree_annotation |-> [ num_tree |-> 1, target_id |-> <<0>>, class_id |-> <<0>> ],
      pred_transform |-> [ name |-> STR_sigmoid, config |-> << >> ],
      base_scores |-> <<0>>,
      attributes |-> <<STR_empty_json>> ],
    [ type |-> "kFloat64",
      metadata |-> [ num_feature |-> 3, task_type |-> "kMultiClf",
                     average_tree_output |-> TRUE, num_target |-> 1,
                     num_class |-> <<2>>, leaf_vector_shape |-> <<1, 2>> ],
      tree_annotation |-> [ num_tree |-> 1, target_id |-> <<0>>, class_id |-> <<1>> ],
      pred_transform |-> [ name |-> STR_exponential_standard_ratio, config |-> << >> ],
      base_scores |-> <<4, 6>>,
      attributes |-> <<STR_empty_json>> ] }

(***************************************************************************)
(* ModelBuilderImpl (model_builder.cc): every member function is an        *)
(* operator from the builder to [ok, b]: whether the call returned (ok) or *)
(* threw treelite::Error, and the builder as the call left it              *)
(***************************************************************************)
ModelBuilderState ==
  {"kExpectTree", "kExpectNode", "kExpectDetail", "kNodeComplete", "kModelComplete"}

\* the kinds of treelite::Error a call throws: the "Unexpected call to ..."
\* of a state guard, and the failure of any other check
Throw(b, what) == [ ok |-> FALSE, b |-> b, what |-> what ]

Return(b) == [ ok |-> TRUE, b |-> b, what |-> "none" ]

\* ModelBuilderImpl::StartTree
StartTree(b) ==
  IF b.current_state_ # "kExpectTree"
    THEN Throw(b, "UnexpectedCall")
    ELSE Return([ b EXCEPT !.current_tree_ = TreeInit(NewTree),
                           !.current_state_ = "kExpectNode" ])

\* the loop of EndTree from node i on: [t, map]
RECURSIVE TranslateChildren(_, _, _)
TranslateChildren(t, map, i) ==
  IF i >= t.num_nodes
    THEN [ t |-> t, map |-> map ]
    ELSE IF IsLeaf(t, i)
      THEN TranslateChildren(t, map, i + 1)
      ELSE LET m1 == MapSubscript(map, t.cleft_[i + 1])
               cleft == m1[t.cleft_[i + 1]]
               m2 == MapSubscript(m1, t.cright_[i + 1])
               cright == m2[t.cright_[i + 1]]
           IN  TranslateChildren(SetChildren(t, i, cleft, cright), m2, i + 1)

\* a Tree after std::move(tree): the arrays are gone, the scalars stay
MovedFromTree(t) ==
  [ NewTree EXCEPT !.num_nodes = t.num_nodes,
                   !.has_categorical_split_ = t.has_categorical_split_ ]

\* EndTree without node_id_map_.clear()
EndTreeKeepingMap(b) ==
  IF b.current_state_ # "kExpectNode"
    THEN Throw(b, "UnexpectedCall")
    ELSE LET r == TranslateChildren(b.current_tree_, b.node_id_map_, 0)
         IN  Return([ b EXCEPT
                        !.model_[1].trees = Append(@, r.t),
                        !.current_tree_ = MovedFromTree(r.t),
                        !.node_id_map_ = r.map,
                        !.current_state_ = "kExpectTree" ])

\* ModelBuilderImpl::EndTree
EndTree(b) ==
  IF b.current_state_ # "kExpectNode"
    THEN Throw(b, "UnexpectedCall")
    ELSE LET r == TranslateChildren(b.current_tree_, b.node_id_map_, 0)
         IN  Return([ b EXCEPT
                        !.model_[1].trees = Append(@, r.t),
                        !.current_tree_ = MovedFromTree(r.t),
                        !.node_id_map_ = EmptyMap,
                        !.current_state_ = "kExpectTree" ])

\* ModelBuilderImpl::StartNode
StartNode(b, node_key) ==
  IF b.current_state_ # "kExpectNode"
    THEN Throw(b, "UnexpectedCall")
    ELSE LET a == AllocNode(b.current_tree_)
         IN  IF ~a.ok
               THEN Throw([ b EXCEPT !.current_tree_ = a.t ], "CheckFailed")
               ELSE Return([ b EXCEPT
                               !.current_tree_ = a.t,
                               !.current_node_id_ = a.nd,
                               !.node_id_map_ = MapAssign(@, node_key, a.nd),
                               !.current_state_ = "kExpectDetail" ])

\* EndNode without its state guard
EndNodeUnguarded(b) ==
  Return([ b EXCEPT !.current_state_ = "kExpectNode" ])

\* ModelBuilderImpl::EndNode
EndNode(b) ==
  IF b.current_state_ # "kNodeComplete"
    THEN Throw(b, "UnexpectedCall")
    ELSE Return([ b EXCEPT !.current_state_ = "kExpectNode" ])

\* ModelBuilderImpl::NumericalTest
NumericalTest(b, split_index, threshold, default_left, cmp, left_child_key, right_child_key) ==
  IF b.current_state_ # "kExpectDetail"
    THEN Throw(b, "UnexpectedCall")
    ELSE LET s == SetNumericalSplit(b.current_tree_, b.current_node_id_, split_index,
                                    threshold, default_left, cmp)
         IN  IF ~s.ok
               THEN Throw([ b EXCEPT !.current_tree_ = s.t ], "CheckFailed")
               ELSE Return([ b EXCEPT
                               !.current_tree_ = SetChildren(s.t, b.current_node_id_,
                                                   left_child_key, right_child_key),
                               !.current_state_ = "kNodeComplete" ])

\* ModelBuilderImpl::CategoricalTest
CategoricalTest(b, split_index, default_left, category_list, category_list_right_child, left_child_key, right_child_key) ==
  IF b.current_state_ # "kExpectDetail"
    THEN Throw(b, "UnexpectedCall")
    ELSE LET s == SetCategoricalSplit(b.current_tree_, b.current_node_id_, split_index,
                                      default_left, category_list,
                                      category_list_right_child)
         IN  IF ~s.ok
               THEN Throw([ b EXCEPT !.current_tree_ = s.t ], "CheckFailed")
               ELSE Return([ b EXCEPT
                               !.current_tree_ = SetChildren(s.t, b.current_node_id_,
                                                   left_child_key, right_child_key),
                               !.current_state_ = "kNodeComplete" ])

\* ModelBuilderImpl::LeafScalar
LeafScalar(b, leaf_value) ==
  IF b.current_state_ # "kExpectDetail"
    THEN Throw(b, "UnexpectedCall")
    ELSE Return([ b EXCEPT
                    !.current_tree_ = SetLeaf(@, b.current_node_id_, leaf_value),
                    !.current_state_ = "kNodeComplete" ])

\* ModelBuilderImpl::LeafVector, both overloads: elem_type is the element
\* type of the vector passed
LeafVector(b, leaf_vector, elem_type) ==
  IF b.current_state_ # "kExpectDetail"
    THEN Throw(b, "UnexpectedCall")
    ELSE IF elem_type # b.LeafOutputT
      THEN Throw(b, "CheckFailed")
      ELSE Return([ b EXCEPT
                      !.current_tree_ = SetLeafVector(@, b.current_node_id_, leaf_vector),
                      !.current_state_ = "kNodeComplete" ])

\* ModelBuilderImpl::Gain
Gain(b, gain) ==
  IF b.current_state_ \notin {"kExpectDetail", "kNodeComplete"}
    THEN Throw(b, "UnexpectedCall")
    ELSE Return([ b EXCEPT !.current_tree_ = SetGain(@, b.current_node_id_, gain) ])

\* ModelBuilderImpl::DataCount
DataCount(b, data_count) ==
  IF b.current_state_ \notin {"kExpectDetail", "kNodeComplete"}
    THEN Throw(b, "UnexpectedCall")
    ELSE Return([ b EXCEPT
                    !.current_tree_ = SetDataCount(@, b.current_node_id_, data_count) ])

\* ModelBuilderImpl::SumHess
SumHess(b, sum_hess) ==
  IF b.current_state_ \notin {"kExpectDetail", "kNodeComplete"}
    THEN Throw(b, "UnexpectedCall")
    ELSE Return([ b EXCEPT
                    !.current_tree_ = SetSumHess(@, b.current_node_id_, sum_hess) ])

\* Model::GetNumTree
GetNumTree(model) == Len(model.trees)

\* CommitModel that moves to ModelComplete before it compares the number
\* of trees with num_tree
CommitModelStateFirst(b) ==
  IF b.current_state_ # "kExpectTree"
    THEN Throw(b, "UnexpectedCall")
    ELSE IF GetNumTree(b.model_[1]) # b.expected_num_tree_
      THEN Throw([ b EXCEPT !.current_state_ = "kModelComplete" ], "CheckFailed")
      ELSE [ ok |-> TRUE, what |-> "none", model |-> b.model_,
             b |-> [ b EXCEPT !.current_state_ = "kModelComplete", !.model_ = <<>> ] ]

\* ModelBuilderImpl::CommitModel: [ok, b, what, model]; the model is moved
\* out of the builder and returned
CommitModel(b) ==
  IF b.current_state_ # "kExpectTree"
    THEN Throw(b, "UnexpectedCall")
    ELSE IF GetNumTree(b.model_[1]) # b.expected_num_tree_
      THEN Throw(b, "CheckFailed")
      ELSE [ ok |-> TRUE, what |-> "none", model |-> b.model_,
             b |-> [ b EXCEPT !.current_state_ = "kModelComplete", !.model_ = <<>> ] ]

(***************************************************************************)
(* The calls a user of the builder makes                                   *)
(***************************************************************************)
Calls ==
  { [ name |-> n ] : n \in {"StartTree", "EndTree", "EndNode", "CommitModel"} }
  \cup { [ name |-> "StartNode", node_key |-> k ] : k \in NodeKeys }
  \cup { [ name |-> "NumericalTest", split_index |-> s, children |-> c ] :
           s \in SplitIndices, c \in NumericalChildKeys }
  \cup { [ name |-> "CategoricalTest", split_index |-> s, category_list |-> l,
           children |-> c ] :
           s \in SplitIndices, l \in CategoryLists, c \in CategoricalChildKeys }
  \cup { [ name |-> "LeafScalar" ] }
  \cup { [ name |-> "LeafVector", leaf_vector |-> v, elem_type |-> e ] :
           v \in LeafVectors, e \in FloatTypes }
  \cup { [ name |-> n ] : n \in {"Gain", "DataCount", "SumHess"} }

DetailCalls == {"NumericalTest", "CategoricalTest", "LeafScalar", "LeafVector"}

StatCalls == {"Gain", "DataCount", "SumHess"}

\* the member function a call invokes, with its arguments
Apply(b, c) ==
  CASE c.name = "StartTree" -> StartTree(b)
    [] c.name = "EndTree" -> EndTree(b)
    [] c.name = "StartNode" -> StartNode(b, c.node_key)
    [] c.name = "EndNode" -> EndNode(b)
    [] c.name = "NumericalTest" ->
         NumericalTest(b, c.split_index, 3, TRUE, "kLT", c.children[1], c.children[2])
    [] c.name = "CategoricalTest" ->
         CategoricalTest(b, c.split_index, FALSE, c.category_list, TRUE,
                         c.children[1], c.children[2])
    [] c.name = "LeafScalar" -> LeafScalar(b, 5)
    [] c.name = "LeafVector" -> LeafVector(b, c.leaf_vector, c.elem_type)
    [] c.name = "Gain" -> Gain(b, 1)
    [] c.name = "DataCount" -> DataCount(b, 1)
    [] c.name = "SumHess" -> SumHess(b, 1)
    [] c.name = "CommitModel" -> CommitModel(b)

\* the trees the builder has finished
TreesBuilt(b) == IF b.model_ = <<>> THEN 0 ELSE GetNumTree(b.model_[1])

RECURSIVE SumSeq(_)
SumSeq(s) == IF s = <<>> THEN 0 ELSE s[1] + SumSeq(Tail(s))

CountTrue(s) == Cardinality({ i \in 1..Len(s) : s[i] })

StatsOfTree(t) ==
  CountTrue(t.gain_present_) + CountTrue(t.data_count_present_)
    + CountTrue(t.sum_hess_present_)

\* the statistics recorded through the builder
StatsSet(b) ==
  (IF b.model_ = <<>> THEN 0
   ELSE SumSeq([ i \in 1..Len(b.model_[1].trees) |-> StatsOfTree(b.model_[1].trees[i]) ]))
  + StatsOfTree(b.current_tree_)

(***************************************************************************)
(* The builder driven by a user: one action per member function            *)
(***************************************************************************)
NoInput == [ kind |-> "none" ]

NothingLoaded == [ status |-> "none" ]

NoConstruction == [ phase |-> "none" ]

NoPredict == [ phase |-> "none" ]

vars == <<builder, err, committed, started, nStartNode, inflight, loaded, nSerialize, ctor, gtil>>

Init ==
  /\ \E cfg \in BuilderConfigs, alpha0 \in IndeterminateFloats,
        ratio0 \in IndeterminateFloats, node_id0 \in IndeterminateInts :
       LET r == InitializeModel(cfg.type, cfg.type, cfg.metadata, cfg.tree_annotation,
                                cfg.pred_transform, cfg.base_scores, cfg.attributes,
                                alpha0, ratio0, node_id0)
       IN  r.ok /\ builder = r.b
  /\ err = "none"
  /\ started = <<>>
  /\ nStartNode = 0
  /\ inflight = NoInput
  /\ loaded = NothingLoaded
  /\ nSerialize = 0
  /\ ctor = NoConstruction
  /\ gtil = NoPredict
  /\ committed = <<>>

\* the user makes call c and sees it return or throw
Do(c) ==
  LET r == Apply(builder, c)
  IN  /\ builder' = r.b
      /\ err' = r.what
      /\ committed' = IF c.name = "CommitModel" /\ r.ok THEN r.model ELSE committed
      /\ started' = IF r.ok /\ c.name = "StartNode" THEN Append(started, c.node_key)
                    ELSE IF r.ok /\ c.name \in {"StartTree", "EndTree"} THEN <<>>
                    ELSE started
      /\ nStartNode' = IF r.ok /\ c.name = "StartNode" THEN nStartNode + 1 ELSE nStartNode
      /\ UNCHANGED <<inflight, loaded, nSerialize, ctor, gtil>>

CallStartTree ==
  /\ builder.current_state_ = "kExpectTree"
       => TreesBuilt(builder) < builder.expected_num_tree_ + MaxExtraTree
  /\ Do([ name |-> "StartTree" ])

CallEndTree == Do([ name |-> "EndTree" ])

CallStartNode ==
  /\ builder.current_state_ = "kExpectNode" => nStartNode < MaxNode
  /\ \E k \in NodeKeys : Do([ name |-> "StartNode", node_key |-> k ])

CallEndNode == Do([ name |-> "EndNode" ])

CallNumericalTest ==
  \E s \in SplitIndices, c \in NumericalChildKeys :
    Do([ name |-> "NumericalTest", split_index |-> s, children |-> c ])

CallCategoricalTest ==
  \E s \in SplitIndices, l \in CategoryLists, c \in CategoricalChildKeys :
    Do([ name |-> "CategoricalTest", split_index |-> s, category_list |-> l,
         children |-> c ])

CallLeafScalar == Do([ name |-> "LeafScalar" ])

CallLeafVector ==
  \E v \in LeafVectors, e \in FloatTypes :
    Do([ name |-> "LeafVector", leaf_vector |-> v, elem_type |-> e ])

StatAllowed ==
  builder.current_state_ \in {"kExpectDetail", "kNodeComplete"}
    => StatsSet(builder) < MaxStat

CallGain == StatAllowed /\ Do([ name |-> "Gain" ])

CallDataCount == StatAllowed /\ Do([ name |-> "DataCount" ])

CallSumHess == StatAllowed /\ Do([ name |-> "SumHess" ])

CallCommitModel == Do([ name |-> "CommitModel" ])

Next ==
  \/ CallStartTree
  \/ CallEndTree
  \/ CallStartNode
  \/ CallEndNode
  \/ CallNumericalTest
  \/ CallCategoricalTest
  \/ CallLeafScalar
  \/ CallLeafVector
  \/ CallGain
  \/ CallDataCount
  \/ CallSumHess
  \/ CallCommitModel

Spec == Init /\ [][Next]_vars

(***************************************************************************)
(* Serializer and Deserializer (serializer.cc) over the two transports:    *)
(* a stream is a sequence of integers, an array or a string in it          *)
(* preceded by its length; a framed buffer is a sequence of frames, one    *)
(* for every scalar, array or string                                       *)
(***************************************************************************)
\* the enum types, their values listed by their integer value from 0
EnumValues(type) ==
  CASE type = "TypeInfo" -> <<"kInvalid", "kUInt32", "kFloat32", "kFloat64">>
    [] type = "TaskType" ->
         <<"kBinaryClf", "kRegressor", "kMultiClf", "kLearningToRank", "kIsolationForest">>
    [] type = "TreeNodeType" -> <<"kLeafNode", "kNumericalTestNode", "kCategoricalTestNode">>
    [] type = "Operator" -> <<"kNone", "kEQ", "kLT", "kLE", "kGT", "kGE">>

\* the integer a value of a field type is stored as
Encode(type, v) ==
  CASE type = "int" -> v
    [] type = "bool" -> IF v THEN 1 ELSE 0
    [] OTHER -> (CHOOSE k \in 1..Len(EnumValues(type)) : EnumValues(type)[k] = v) - 1

\* the value of a field type an integer is read as
Decode(type, x) ==
  CASE type = "int" -> x
    [] type = "bool" -> x # 0
    [] OTHER -> IF x \in 0..(Len(EnumValues(type)) - 1)
                  THEN EnumValues(type)[x + 1] ELSE "out of range"

Field(name, kind, type) == [ name |-> name, kind |-> kind, type |-> type ]

\* Serializer::SerializeHeader: the fields in the order they are written
SerializeHeaderFields ==
  << Field("major_ver_", "scalar", "int"), Field("minor_ver_", "scalar", "int"),
     Field("patch_ver_", "scalar", "int"),
     Field("threshold_type_", "scalar", "TypeInfo"),
     Field("leaf_output_type_", "scalar", "TypeInfo"),
     Field("num_tree_", "scalar", "int"),
     Field("num_feature", "scalar", "int"), Field("task_type", "scalar", "TaskType"),
     Field("average_tree_output", "scalar", "bool"), Field("num_target", "scalar", "int"),
     Field("num_class", "array", "int"), Field("leaf_vector_shape", "array", "int"),
     Field("target_id", "array", "int"), Field("class_id", "array", "int"),
     Field("postprocessor", "string", "int"),
     Field("sigmoid_alpha", "scalar", "int"), Field("ratio_c", "scalar", "int"),
     Field("base_scores", "array", "int"), Field("attributes", "string", "int"),
     Field("num_opt_field_per_model_", "scalar", "int") >>

\* Serializer::SerializeTree: the fields in the order they are written, up
\* to the count of extension slot 2
SerializeTreeFields ==
  << Field("num_nodes", "scalar", "int"), Field("has_categorical_split_", "scalar", "bool"),
     Field("node_type_", "array", "TreeNodeType"),
     Field("cleft_", "array", "int"), Field("cright_", "array", "int"),
     Field("split_index_", "array", "int"), Field("default_left_", "array", "bool"),
     Field("leaf_value_", "array", "int"), Field("threshold_", "array", "int"),
     Field("cmp_", "array", "Operator"),
     Field("category_list_right_child_", "array", "bool"),
     Field("leaf_vector_", "array", "int"),
     Field("leaf_vector_begin_", "array", "int"), Field("leaf_vector_end_", "array", "int"),
     Field("category_list_", "array", "int"),
     Field("category_list_begin_", "array", "int"),
     Field("category_list_end_", "array", "int"),
     Field("data_count_", "array", "int"), Field("data_count_present_", "array", "bool"),
     Field("sum_hess_", "array", "int"), Field("sum_hess_present_", "array", "bool"),
     Field("gain_", "array", "int"), Field("gain_present_", "array", "bool"),
     Field("num_opt_field_per_tree_", "scalar", "int") >>

\* DeserializeHeaderFields with the reads of target_id and class_id exchanged
DeserializeHeaderFieldsExchanged ==
  << Field("num_tree_", "scalar", "int"),
     Field("num_feature", "scalar", "int"), Field("task_type", "scalar", "TaskType"),
     Field("average_tree_output", "scalar", "bool"), Field("num_target", "scalar", "int"),
     Field("num_class", "array", "int"), Field("leaf_vector_shape", "array", "int"),
     Field("class_id", "array", "int"), Field("target_id", "array", "int"),
     Field("postprocessor", "string", "int"),
     Field("sigmoid_alpha", "scalar", "int"), Field("ratio_c", "scalar", "int"),
     Field("base_scores", "array", "int"), Field("attributes", "string", "int"),
     Field("num_opt_field_per_model_", "scalar", "int") >>

\* Deserializer::DeserializeHeaderAndCreateModel: the fields read after the
\* version and the two types, in the order they are read
DeserializeHeaderFields ==
  << Field("num_tree_", "scalar", "int"),
     Field("num_feature", "scalar", "int"), Field("task_type", "scalar", "TaskType"),
     Field("average_tree_output", "scalar", "bool"), Field("num_target", "scalar", "int"),
     Field("num_class", "array", "int"), Field("leaf_vector_shape", "array", "int"),
     Field("target_id", "array", "int"), Field("class_id", "array", "int"),
     Field("postprocessor", "string", "int"),
     Field("sigmoid_alpha", "scalar", "int"), Field("ratio_c", "scalar", "int"),
     Field("base_scores", "array", "int"), Field("attributes", "string", "int"),
     Field("num_opt_field_per_model_", "scalar", "int") >>

\* DeserializeTreeFields with the reads of cleft_ and cright_ exchanged
DeserializeTreeFieldsSwapped ==
  << Field("num_nodes", "scalar", "int"), Field("has_categorical_split_", "scalar", "bool"),
     Field("node_type_", "array", "TreeNodeType"),
     Field("cright_", "array", "int"), Field("cleft_", "array", "int"),
     Field("split_index_", "array", "int"), Field("default_left_", "array", "bool"),
     Field("leaf_value_", "array", "int"), Field("threshold_", "array", "int"),
     Field("cmp_", "array", "Operator"),
     Field("category_list_right_child_", "array", "bool"),
     Field("leaf_vector_", "array", "int"),
     Field("leaf_vector_begin_", "array", "int"), Field("leaf_vector_end_", "array", "int"),
     Field("category_list_", "array", "int"),
     Field("category_list_begin_", "array", "int"),
     Field("category_list_end_", "array", "int"),
     Field("data_count_", "array", "int"), Field("data_count_present_", "array", "bool"),
     Field("sum_hess_", "array", "int"), Field("sum_hess_present_", "array", "bool"),
     Field("gain_", "array", "int"), Field("gain_present_", "array", "bool"),
     Field("num_opt_field_per_tree_", "scalar", "int") >>

\* Deserializer::DeserializeTree: the fields in the order they are read, up
\* to the count of extension slot 2
DeserializeTreeFields ==
  << Field("num_nodes", "scalar", "int"), Field("has_categorical_split_", "scalar", "bool"),
     Field("node_type_", "array", "TreeNodeType"),
     Field("cleft_", "array", "int"), Field("cright_", "array", "int"),
     Field("split_index_", "array", "int"), Field("default_left_", "array", "bool"),
     Field("leaf_value_", "array", "int"), Field("threshold_", "array", "int"),
     Field("cmp_", "array", "Operator"),
     Field("category_list_right_child_", "array", "bool"),
     Field("leaf_vector_", "array", "int"),
     Field("leaf_vector_begin_", "array", "int"), Field("leaf_vector_end_", "array", "int"),
     Field("category_list_", "array", "int"),
     Field("category_list_begin_", "array", "int"),
     Field("category_list_end_", "array", "int"),
     Field("data_count_", "array", "int"), Field("data_count_present_", "array", "bool"),
     Field("sum_hess_", "array", "int"), Field("sum_hess_present_", "array", "bool"),
     Field("gain_", "array", "int"), Field("gain_present_", "array", "bool"),
     Field("num_opt_field_per_tree_", "scalar", "int") >>

\* the field of a model or a tree the serializer names: the category list
\* of node nid is category_list_[category_list_begin_[nid] ..
\* category_list_end_[nid]), kept by detail/tree.h as matching_categories_
\* and the offsets matching_categories_offset_[nid], [nid + 1]
Col(obj, name) ==
  CASE name = "category_list_" -> obj.matching_categories_
    [] name = "category_list_begin_" ->
         SubSeq(obj.matching_categories_offset_, 1, Len(obj.matching_categories_offset_) - 1)
    [] name = "category_list_end_" ->
         IF obj.matching_categories_offset_ = <<>> THEN <<>>
         ELSE Tail(obj.matching_categories_offset_)
    [] OTHER -> obj[name]

\* the assignment to the field of a model or a tree the deserializer names
SetCol(obj, name, v) ==
  CASE name = "category_list_" -> [ obj EXCEPT !.matching_categories_ = v ]
    [] name = "category_list_begin_" -> [ obj EXCEPT !.matching_categories_offset_ = v ]
    [] name = "category_list_end_" ->
         [ obj EXCEPT !.matching_categories_offset_ =
                        IF @ = <<>> THEN <<>> ELSE <<@[1]>> \o v ]
    [] OTHER -> [ obj EXCEPT ![name] = v ]

\* the integers a field is stored as
Items(f, value) ==
  IF f.kind = "scalar" THEN <<Encode(f.type, value)>>
  ELSE [ i \in 1..Len(value) |-> Encode(f.type, value[i]) ]

\* what SerializeScalar / SerializeArray / SerializeString add to the
\* output: the integers of a stream, or one frame of a framed buffer
Block(kind, f, value) ==
  IF kind = "stream"
    THEN IF f.kind = "scalar" THEN Items(f, value) ELSE <<Len(value)>> \o Items(f, value)
    ELSE << [ format |-> f.type, nitem |-> Len(Items(f, value)), buf |-> Items(f, value) ] >>

\* SerializeScalar / SerializeArray / SerializeString of the mixin w
Put(w, f, value) ==
  [ w EXCEPT !.data = @ \o Block(w.kind, f, value), !.names = Append(@, f.name) ]

RECURSIVE Concat(_)
Concat(seqs) == IF seqs = <<>> THEN <<>> ELSE seqs[1] \o Concat(Tail(seqs))

\* the fields of obj written in the order of the list
PutFields(w, fields, obj) ==
  CHOOSE res \in
    { [ w0 EXCEPT !.data = @ \o Concat([ i \in 1..Len(fields) |->
                                          Block(w0.kind, fields[i], Col(o, fields[i].name)) ]),
                  !.names = @ \o [ i \in 1..Len(fields) |-> fields[i].name ] ]
      : w0 \in {w}, o \in {obj} } : TRUE

\* Model::GetThresholdType / GetLeafOutputType
GetThresholdType(model) == model.variant_threshold

GetLeafOutputType(model) == model.variant_leaf_output

\* Serializer::SerializeHeader: [w, model]; the version, the types, the
\* number of trees and the count of slot 1 are stamped on the model
SerializeHeader(w, model) ==
  LET m == [ model EXCEPT
               !.major_ver_ = TREELITE_VER_MAJOR,
               !.minor_ver_ = TREELITE_VER_MINOR,
               !.patch_ver_ = TREELITE_VER_PATCH,
               !.threshold_type_ = GetThresholdType(model),
               !.leaf_output_type_ = GetLeafOutputType(model),
               !.num_tree_ = GetNumTree(model),
               !.num_opt_field_per_model_ = 0 ]
  IN  [ w |-> PutFields(w, SerializeHeaderFields, m), model |-> m ]

\* SerializeTree handing the arrays of the tree over to the writer
SerializeTreeMoving(w, tree) ==
  LET t == [ tree EXCEPT !.num_opt_field_per_tree_ = 0, !.num_opt_field_per_node_ = 0 ]
  IN  [ w |-> Put(PutFields(w, SerializeTreeFields, t),
                  Field("num_opt_field_per_node_", "scalar", "int"),
                  t.num_opt_field_per_node_),
        tree |-> MovedFromTree(t) ]

\* Serializer::SerializeTree: [w, tree]
SerializeTree(w, tree) ==
  LET t == [ tree EXCEPT !.num_opt_field_per_tree_ = 0, !.num_opt_field_per_node_ = 0 ]
  IN  [ w |-> Put(PutFields(w, SerializeTreeFields, t),
                  Field("num_opt_field_per_node_", "scalar", "int"),
                  t.num_opt_field_per_node_),
        tree |-> t ]

\* the loop of SerializeTrees from tree i on: [w, trees]
RECURSIVE SerializeTreesFrom(_, _, _)
SerializeTreesFrom(w, trees, i) ==
  IF i > Len(trees) THEN [ w |-> w, trees |-> trees ]
  ELSE LET r == SerializeTree(w, trees[i])
       IN  SerializeTreesFrom(r.w, [ trees EXCEPT ![i] = r.tree ], i + 1)

\* Serializer::SerializeTrees: [ok, w, model]
SerializeTrees(w, model) ==
  IF Len(model.trees) # model.num_tree_
    THEN [ ok |-> FALSE, w |-> w, model |-> model ]
    ELSE LET r == SerializeTreesFrom(w, model.trees, 1)
         IN  [ ok |-> TRUE, w |-> r.w, model |-> [ model EXCEPT !.trees = r.trees ] ]

\* Model::SerializeToStream ("stream") / Model::SerializeToPyBuffer
\* ("pybuffer"): [ok, data, model]
Serialize(kind, model) ==
  LET h == SerializeHeader([ kind |-> kind, data |-> <<>>, names |-> <<>> ], model)
      r == SerializeTrees(h.w, h.model)
  IN  [ ok |-> r.ok, data |-> r.w.data, names |-> r.w.names, model |-> r.model ]

(***************************************************************************)
(* Deserializer: a reader r is [kind, data, pos, ok], pos the next integer *)
(* of a stream or the next frame of a framed buffer, ok FALSE once a read  *)
(* has run past the end of the input                                       *)
(***************************************************************************)
Failed(r) == [ r EXCEPT !.ok = FALSE ]

\* DeserializeScalar / DeserializeArray / DeserializeString: [r, v]
Get(r, f) ==
  IF ~r.ok \/ r.pos > Len(r.data)
    THEN [ r |-> Failed(r), v |-> 0 ]
  ELSE IF r.kind = "stream"
    THEN IF f.kind = "scalar"
           THEN [ r |-> [ r EXCEPT !.pos = @ + 1, !.names = Append(@, f.name) ], v |-> Decode(f.type, r.data[r.pos]) ]
           ELSE LET n == r.data[r.pos]
                IN  IF n < 0 \/ r.pos + n > Len(r.data)
                      THEN [ r |-> Failed(r), v |-> 0 ]
                      ELSE [ r |-> [ r EXCEPT !.pos = @ + n + 1, !.names = Append(@, f.name) ],
                             v |-> [ i \in 1..n |-> Decode(f.type, r.data[r.pos + i]) ] ]
    ELSE LET frame == r.data[r.pos]
         IN  IF f.kind = "scalar"
               THEN IF frame.nitem # 1
                      THEN [ r |-> Failed(r), v |-> 0 ]
                      ELSE [ r |-> [ r EXCEPT !.pos = @ + 1, !.names = Append(@, f.name) ],
                             v |-> Decode(f.type, frame.buf[1]) ]
               ELSE [ r |-> [ r EXCEPT !.pos = @ + 1, !.names = Append(@, f.name) ],
                      v |-> [ i \in 1..frame.nitem |-> Decode(f.type, frame.buf[i]) ] ]

\* SkipOptionalField: one length-prefixed block of a stream, one frame of a
\* framed buffer
SkipOptionalField(r) ==
  IF ~r.ok \/ r.pos > Len(r.data)
    THEN Failed(r)
  ELSE IF r.kind = "stream"
    THEN LET n == r.data[r.pos]
         IN  IF n < 0 \/ r.pos + n > Len(r.data) THEN Failed(r)
             ELSE [ r EXCEPT !.pos = @ + n + 1, !.names = Append(@, "optional field") ]
    ELSE [ r EXCEPT !.pos = @ + 1, !.names = Append(@, "optional field") ]

\* a reader that skips one optional field of a slot whatever its count
SkipOptionalFieldsOnce(r, n) ==
  IF n <= 0 \/ ~r.ok THEN r ELSE SkipOptionalField(r)

\* for (i = 0; i < n; ++i) SkipOptionalField()
RECURSIVE SkipOptionalFields(_, _)
SkipOptionalFields(r, n) ==
  IF n <= 0 \/ ~r.ok THEN r
  ELSE CHOOSE res \in { SkipOptionalFields(s, n - 1) : s \in {SkipOptionalField(r)} } : TRUE

\* one field read into obj: [r, obj]
GetField(r, f, obj) ==
  CHOOSE res \in { IF g.r.ok THEN [ r |-> g.r, obj |-> SetCol(obj, f.name, g.v) ]
                   ELSE [ r |-> g.r, obj |-> obj ] : g \in {Get(r, f)} } : TRUE

\* the fields from the i-th on, read into obj in the order of the list:
\* [r, obj]
RECURSIVE GetFields(_, _, _, _)
GetFields(r, fields, obj, i) ==
  IF i > Len(fields) \/ ~r.ok
    THEN [ r |-> r, obj |-> obj ]
    ELSE CHOOSE res \in { GetFields(s.r, fields, s.obj, i + 1) :
                          s \in {GetField(r, fields[i], obj)} } : TRUE

\* Model::Create(threshold_type, leaf_output_type): [ok, model]
ModelCreate(threshold_type, leaf_output_type) ==
  [ ok |-> /\ threshold_type \in {"kFloat32", "kFloat64"}
           /\ leaf_output_type \in {"kUInt32", threshold_type},
    model |-> NewModel(threshold_type, leaf_output_type, 0, 0) ]

\* a version check without the exception for checkpoints of 3.9
VersionCheckNoBridge(major_ver, minor_ver) ==
  IF major_ver # TREELITE_VER_MAJOR
    THEN "fatal"
  ELSE IF major_ver = TREELITE_VER_MAJOR /\ minor_ver > TREELITE_VER_MINOR
    THEN "warning"
  ELSE "none"

\* the version check of DeserializeHeaderAndCreateModel: "fatal",
\* "warning" or "none"
VersionCheck(major_ver, minor_ver) ==
  IF major_ver # TREELITE_VER_MAJOR /\ ~(major_ver = 3 /\ minor_ver = 9)
    THEN "fatal"
  ELSE IF major_ver = TREELITE_VER_MAJOR /\ minor_ver > TREELITE_VER_MINOR
    THEN "warning"
  ELSE "none"

\* the locals of DeserializeHeaderAndCreateModel, in the order they are read
DeserializeVersionFields ==
  << Field("major_ver", "scalar", "int"), Field("minor_ver", "scalar", "int"),
     Field("patch_ver", "scalar", "int") >>

DeserializeTypeFields ==
  << Field("threshold_type", "scalar", "TypeInfo"),
     Field("leaf_output_type", "scalar", "TypeInfo") >>

HeaderLocals ==
  [ major_ver |-> 0, minor_ver |-> 0, patch_ver |-> 0,
    threshold_type |-> "kInvalid", leaf_output_type |-> "kInvalid" ]

\* DeserializeHeaderAndCreateModel from Model::Create on, l the locals
\* read so far: [ok, r, model, warned]
CreateModelAndDeserializeHeader(r, l) ==
  CHOOSE res \in
    { LET c == ModelCreate(t.obj.threshold_type, t.obj.leaf_output_type)
          warned == VersionCheck(l.major_ver, l.minor_ver) = "warning"
          m == [ c.model EXCEPT !.major_ver_ = l.major_ver, !.minor_ver_ = l.minor_ver,
                                !.patch_ver_ = l.patch_ver ]
      IN  IF ~t.r.ok \/ ~c.ok
            THEN [ ok |-> FALSE, r |-> t.r, model |-> <<>>, warned |-> warned ]
            ELSE CHOOSE res2 \in
                   { LET s == SkipOptionalFields(h.r, h.obj.num_opt_field_per_model_)
                     IN  [ ok |-> s.ok, r |-> s, model |-> <<h.obj>>, warned |-> warned ]
                     : h \in {GetFields(t.r, DeserializeHeaderFields, m, 1)} } : TRUE
      : t \in {GetFields(r, DeserializeTypeFields, l, 1)} } : TRUE

\* Deserializer::DeserializeHeaderAndCreateModel: [ok, r, model, warned]
DeserializeHeaderAndCreateModel(r) ==
  CHOOSE res \in
    { IF ~v.r.ok \/ VersionCheck(v.obj.major_ver, v.obj.minor_ver) = "fatal"
        THEN [ ok |-> FALSE, r |-> v.r, model |-> <<>>, warned |-> FALSE ]
        ELSE CreateModelAndDeserializeHeader(v.r, v.obj)
      : v \in {GetFields(r, DeserializeVersionFields, HeaderLocals, 1)} } : TRUE

\* Deserializer::DeserializeTree: [r, tree]
DeserializeTree(r, tree) ==
  CHOOSE res \in
    { LET s2 == SkipOptionalFields(g.r, g.obj.num_opt_field_per_tree_)
          n == Get(s2, Field("num_opt_field_per_node_", "scalar", "int"))
      IN  IF ~n.r.ok THEN [ r |-> n.r, tree |-> g.obj ]
          ELSE [ r |-> SkipOptionalFields(n.r, n.v),
                 tree |-> [ g.obj EXCEPT !.num_opt_field_per_node_ = n.v ] ]
      : g \in {GetFields(r, DeserializeTreeFields, tree, 1)} } : TRUE

\* the loop of DeserializeTrees with n trees still to read: [r, trees]
RECURSIVE DeserializeTreesFrom(_, _, _)
DeserializeTreesFrom(r, trees, n) ==
  IF n <= 0 \/ ~r.ok
    THEN [ r |-> r, trees |-> trees ]
    ELSE CHOOSE res \in { DeserializeTreesFrom(d.r, d.trees, n - 1) :
                          d \in { [ r |-> t.r, trees |-> Append(trees, t.tree) ] :
                                  t \in {DeserializeTree(r, NewTree)} } } : TRUE

\* Model::DeserializeFromStream ("stream") / Model::DeserializeFromPyBuffer
\* ("pybuffer"): [ok, model, warned]; a read past the end of the input
\* throws
Deserialize(kind, data) ==
  CHOOSE res \in
    { IF ~h.ok
        THEN [ ok |-> FALSE, model |-> <<>>, warned |-> h.warned, names |-> h.r.names ]
      ELSE CHOOSE res2 \in
             { IF ~d.r.ok
                 THEN [ ok |-> FALSE, model |-> <<>>, warned |-> h.warned,
                        names |-> d.r.names ]
               ELSE [ ok |-> TRUE, model |-> << [ h.model[1] EXCEPT !.trees = d.trees ] >>,
                      warned |-> h.warned, names |-> d.r.names ]
               : d \in {DeserializeTreesFrom(h.r, <<>>, h.model[1].num_tree_)} } : TRUE
      : h \in {DeserializeHeaderAndCreateModel([ kind |-> kind, data |-> data, pos |-> 1,
                                                 ok |-> TRUE, names |-> <<>> ])} } : TRUE

(***************************************************************************)
(* Properties of the builder                                               *)
(***************************************************************************)
\* the calls the state table lists for a state
ListedCalls(state) ==
  CASE state = "kExpectTree" -> {"StartTree", "CommitModel"}
    [] state = "kExpectNode" -> {"StartNode", "EndTree"}
    [] state = "kExpectDetail" -> DetailCalls \cup StatCalls
    [] state = "kNodeComplete" -> {"EndNode"} \cup StatCalls
    [] state = "kModelComplete" -> {}

\* C1: in every builder state a call that the state table does not list for
\* the state throws; CommitModel throws unless the trees ended number
\* num_tree, and returns when they do; StartTree, EndNode and the stat calls
\* return where they are listed; a detail call that returns moves the
\* builder to NodeComplete, a stat call that returns leaves the state as it
\* is, and a builder in ModelComplete accepts no call and stays there.
C1_StateMachine ==
  \A c \in Calls :
    LET r == Apply(builder, c)
        state == builder.current_state_
        listed == c.name \in ListedCalls(state)
    IN  /\ ~listed => ~r.ok
        /\ (listed /\ c.name = "CommitModel")
             => (r.ok <=> TreesBuilt(builder) = builder.expected_num_tree_)
        /\ (listed /\ c.name \in {"StartTree", "EndNode"} \cup StatCalls) => r.ok
        /\ (r.ok /\ c.name = "StartTree") => r.b.current_state_ = "kExpectNode"
        /\ (r.ok /\ c.name = "StartNode") => r.b.current_state_ = "kExpectDetail"
        /\ (r.ok /\ c.name \in DetailCalls) => r.b.current_state_ = "kNodeComplete"
        /\ (r.ok /\ c.name \in StatCalls) => r.b.current_state_ = state
        /\ (r.ok /\ c.name = "EndNode") => r.b.current_state_ = "kExpectNode"
        /\ (r.ok /\ c.name = "EndTree") => r.b.current_state_ = "kExpectTree"
        /\ (r.ok /\ c.name = "CommitModel") => r.b.current_state_ = "kModelComplete"
        /\ state = "kModelComplete" => r.b = builder

\* a call was rejected by a builder whose model has been committed
C1_Witness ==
  /\ builder.current_state_ = "kModelComplete"
  /\ committed # <<>>
  /\ err = "UnexpectedCall"

\* the nodes reached from the nodes of frontier through the child links
RECURSIVE ReachableFrom(_, _, _)
ReachableFrom(t, frontier, seen) ==
  IF frontier = {}
    THEN seen
    ELSE LET n == CHOOSE x \in frontier : TRUE
             kids == IF IsLeaf(t, n) THEN {}
                     ELSE {t.cleft_[n + 1], t.cright_[n + 1]} \cap 0..(t.num_nodes - 1)
             seen1 == seen \cup {n}
         IN  ReachableFrom(t, (frontier \cup kids) \ seen1, seen1)

\* some node of the tree is not reachable from node 0
HasOrphan(t) ==
  \E nid \in 0..(t.num_nodes - 1) : nid \notin ReachableFrom(t, {0}, {})

\* C2: EndTree throws, and adds no tree to the model, whenever a node of
\* the tree under construction is not reachable from internal node 0
\* through the child links.
C2_EndTreeRejectsOrphans ==
  builder.current_state_ = "kExpectNode" =>
    LET r == EndTree(builder)
        t == TranslateChildren(builder.current_tree_, builder.node_id_map_, 0).t
    IN  HasOrphan(t) => (~r.ok /\ r.b.model_ = builder.model_)

\* the test nodes of a tree under construction whose left or right child
\* key was never passed to StartNode
UnresolvedNodes(t, map) ==
  { nid \in 0..(t.num_nodes - 1) :
      /\ t.node_type_[nid + 1] # "kLeafNode"
      /\ \/ t.cleft_[nid + 1] \notin DOMAIN map
         \/ t.cright_[nid + 1] \notin DOMAIN map }

\* C3: EndTree throws when a test node of the tree under construction names
\* a child key for which StartNode was never called in that tree.
C3_EndTreeRejectsUnresolved ==
  (builder.current_state_ = "kExpectNode"
     /\ UnresolvedNodes(builder.current_tree_, builder.node_id_map_) # {})
    => ~EndTree(builder).ok

\* the key of the node being defined
CurrentKey == started[Len(started)]

\* C4: StartNode throws on a negative key; NumericalTest and CategoricalTest
\* throw when a child key is negative, equals the key of the node being
\* defined, or equals the other child key.
C4_KeysValidated ==
  \A c \in Calls :
    /\ (builder.current_state_ = "kExpectNode" /\ c.name = "StartNode" /\ c.node_key < 0)
         => ~Apply(builder, c).ok
    /\ (builder.current_state_ = "kExpectDetail"
          /\ c.name \in {"NumericalTest", "CategoricalTest"}
          /\ \/ c.children[1] < 0
             \/ c.children[2] < 0
             \/ c.children[1] = CurrentKey
             \/ c.children[2] = CurrentKey
             \/ c.children[1] = c.children[2])
         => ~Apply(builder, c).ok

\* C5: LeafScalar throws unless leaf_vector_shape is [1,1]; LeafVector
\* throws unless the vector has leaf_vector_shape[0] * leaf_vector_shape[1]
\* values and their type is the leaf output type of the builder.
C5_LeafShapeAndType ==
  builder.current_state_ = "kExpectDetail" =>
    LET shape == builder.model_[1].leaf_vector_shape
    IN  \A c \in Calls :
          /\ (c.name = "LeafScalar" /\ shape # <<1, 1>>) => ~Apply(builder, c).ok
          /\ (c.name = "LeafVector" /\ Len(c.leaf_vector) # shape[1] * shape[2])
               => ~Apply(builder, c).ok
          /\ (c.name = "LeafVector" /\ c.elem_type # builder.LeafOutputT)
               => ~Apply(builder, c).ok

\* C6: a call on the builder that throws leaves the builder, and the model
\* it has handed out, exactly as they were before the call.
C6_FailedCallChangesNothing ==
  [][err' # "none" => (builder' = builder /\ committed' = committed)]_vars

\* CommitModel was rejected for a wrong number of trees: the builder still
\* expects a tree
C6_Witness ==
  /\ err = "CheckFailed"
  /\ builder.current_state_ = "kExpectTree"
  /\ TreesBuilt(builder) # builder.expected_num_tree_

\* C7: the k-th node started in a tree gets the internal id k - 1, and the
\* tree EndTree adds to the model has as many nodes as StartNode was called.
C7_DenseNodeIds ==
  /\ builder.current_state_ \in {"kExpectDetail", "kNodeComplete"}
       => builder.current_node_id_ = Len(started) - 1
  /\ builder.current_state_ = "kExpectNode" =>
       LET r == EndTree(builder)
       IN  r.ok => r.b.model_[1].trees[Len(r.b.model_[1].trees)].num_nodes = Len(started)

(***************************************************************************)
(* Committed models, serialized, stored by a writer of another version,    *)
(* and deserialized                                                        *)
(***************************************************************************)
\* a builder of a model of two trees
TwoTreeConfig ==
  [ type |-> "kFloat32",
    metadata |-> [ num_feature |-> 2, task_type |-> "kBinaryClf",
                   average_tree_output |-> FALSE, num_target |-> 1,
                   num_class |-> <<1>>, leaf_vector_shape |-> <<1, 1>> ],
    tree_annotation |-> [ num_tree |-> 2, target_id |-> <<0, 0>>, class_id |-> <<0, 0>> ],
    pred_transform |-> [ name |-> STR_sigmoid, config |-> << >> ],
    base_scores |-> <<2>>,
    attributes |-> << >> ]

Call(name) == [ name |-> name ]

\* a numerical stump with statistics: node key 0 tests, keys 1 and 2 are leaves
StumpCalls ==
  << Call("StartNode") @@ [ node_key |-> 0 ],
     Call("NumericalTest") @@ [ split_index |-> 0, children |-> <<1, 2>> ],
     Call("Gain"), Call("EndNode"),
     Call("StartNode") @@ [ node_key |-> 1 ], Call("LeafScalar"), Call("DataCount"),
     Call("EndNode"),
     Call("StartNode") @@ [ node_key |-> 2 ], Call("LeafScalar"), Call("EndNode") >>

\* a categorical stump with leaf vectors
CategoricalStumpCalls ==
  << Call("StartNode") @@ [ node_key |-> 0 ],
     Call("CategoricalTest")
       @@ [ split_index |-> 0, category_list |-> <<5, 2>>, children |-> <<1, 2>> ],
     Call("EndNode"),
     Call("StartNode") @@ [ node_key |-> 1 ],
     Call("LeafVector") @@ [ leaf_vector |-> <<1, 2>>, elem_type |-> "kFloat64" ],
     Call("SumHess"), Call("EndNode"),
     Call("StartNode") @@ [ node_key |-> 2 ],
     Call("LeafVector") @@ [ leaf_vector |-> <<1, 2>>, elem_type |-> "kFloat64" ],
     Call("EndNode") >>

\* the builds whose models are serialized: the arguments of the builder
\* and the calls up to CommitModel
Builds ==
  LET cfgs == CHOOSE q \in [ {"f32", "f64"} -> BuilderConfigs ] :
                q["f32"].type = "kFloat32" /\ q["f64"].type = "kFloat64"
  IN  { [ cfg |-> cfgs["f32"],
          script |-> <<Call("StartTree")>> \o StumpCalls
                       \o <<Call("EndTree"), Call("CommitModel")>> ],
        [ cfg |-> cfgs["f64"],
          script |-> <<Call("StartTree")>> \o CategoricalStumpCalls
                       \o <<Call("EndTree"), Call("CommitModel")>> ],
        [ cfg |-> TwoTreeConfig,
          script |-> <<Call("StartTree"), Call("EndTree"), Call("StartTree")>>
                       \o StumpCalls \o <<Call("EndTree"), Call("CommitModel")>> ] }

\* the result of the last call of a non-empty script run on builder b
RECURSIVE RunScript(_, _)
RunScript(b, script) ==
  IF Len(script) = 1 THEN Apply(b, script[1])
  ELSE RunScript(Apply(b, script[1]).b, Tail(script))

\* (major, minor) of the writers that stored a model: before 3.9, 3.9,
\* 4.0, 4.x and 5.0
StoredVersions == {<<3, 8>>, <<3, 9>>, <<4, 0>>, <<4, 1>>, <<5, 0>>}

\* the content of an optional field
OptionalFieldContent == <<7, 8>>

\* an optional field written to an extension slot
PutOptionalField(w) ==
  IF w.kind = "stream"
    THEN [ w EXCEPT !.data = @ \o <<Len(OptionalFieldContent)>> \o OptionalFieldContent,
                    !.names = Append(@, "optional field") ]
    ELSE [ w EXCEPT !.data = Append(@, [ format |-> "int",
                                         nitem |-> Len(OptionalFieldContent),
                                         buf |-> OptionalFieldContent ]),
                    !.names = Append(@, "optional field") ]

RECURSIVE PutOptionalFields(_, _)
PutOptionalFields(w, n) ==
  IF n <= 0 THEN w
  ELSE CHOOSE res \in { PutOptionalFields(w1, n - 1) : w1 \in {PutOptionalField(w)} } : TRUE

\* the trees from the i-th on as a writer with opts[2] optional fields per
\* tree and opts[3] per node writes them
RECURSIVE PutTreesWithOptionalFields(_, _, _, _)
PutTreesWithOptionalFields(w, trees, opts, i) ==
  IF i > Len(trees) THEN w
  ELSE LET t == [ trees[i] EXCEPT !.num_opt_field_per_tree_ = opts[2],
                                   !.num_opt_field_per_node_ = opts[3] ]
       IN  CHOOSE res \in
             { PutTreesWithOptionalFields(w3, trees, opts, i + 1) :
               w3 \in { PutOptionalFields(
                          Put(w1, Field("num_opt_field_per_node_", "scalar", "int"), opts[3]),
                          opts[3]) :
                        w1 \in {PutOptionalFields(PutFields(w, SerializeTreeFields, t),
                                                   opts[2])} } } : TRUE

\* the model as a writer of version major.minor stores it, with opts[1],
\* opts[2], opts[3] optional fields in the slots per model, tree and node:
\* the writer with what it wrote
StoredBy(kind, model, major, minor, opts) ==
  LET m == [ model EXCEPT
               !.major_ver_ = major, !.minor_ver_ = minor, !.patch_ver_ = 0,
               !.threshold_type_ = GetThresholdType(model),
               !.leaf_output_type_ = GetLeafOutputType(model),
               !.num_tree_ = GetNumTree(model),
               !.num_opt_field_per_model_ = opts[1] ]
      w == PutOptionalFields(
             PutFields([ kind |-> kind, data |-> <<>>, names |-> <<>> ],
                       SerializeHeaderFields, m),
             opts[1])
  IN  PutTreesWithOptionalFields(w, m.trees, opts, 1)

\* Model::DumpAsJSON: the fields of the model and the columns of its trees
DumpHeaderNames ==
  { "num_feature", "task_type", "average_tree_output", "num_target", "num_class",
    "leaf_vector_shape", "target_id", "class_id", "postprocessor", "sigmoid_alpha",
    "ratio_c", "base_scores", "attributes" }

DumpTreeNames ==
  { "num_nodes", "has_categorical_split_", "node_type_", "cleft_", "cright_",
    "split_index_", "default_left_", "leaf_value_", "threshold_", "cmp_",
    "category_list_right_child_", "leaf_vector_", "leaf_vector_begin_",
    "leaf_vector_end_", "category_list_", "category_list_begin_", "category_list_end_",
    "data_count_", "data_count_present_", "sum_hess_", "sum_hess_present_",
    "gain_", "gain_present_" }

DumpAsJSON(model) ==
  [ model |-> [ n \in DumpHeaderNames |-> model[n] ],
    trees |-> [ i \in 1..Len(model.trees) |->
                  [ n \in DumpTreeNames |-> Col(model.trees[i], n) ] ] ]

InitSerializer ==
  /\ \E build \in Builds, alpha0 \in IndeterminateFloats, ratio0 \in IndeterminateFloats,
        node_id0 \in IndeterminateInts :
       LET cfg == build.cfg
           i == InitializeModel(cfg.type, cfg.type, cfg.metadata, cfg.tree_annotation,
                                cfg.pred_transform, cfg.base_scores, cfg.attributes,
                                alpha0, ratio0, node_id0)
           r == RunScript(i.b, build.script)
       IN  /\ i.ok /\ r.ok
           /\ builder = r.b
           /\ committed = r.model
           /\ nStartNode = Cardinality({ k \in 1..Len(build.script) :
                                           build.script[k].name = "StartNode" })
  /\ err = "none"
  /\ started = <<>>
  /\ inflight = NoInput
  /\ loaded = NothingLoaded
  /\ nSerialize = 0
  /\ ctor = NoConstruction
  /\ gtil = NoPredict

\* Model::SerializeToStream / Model::SerializeToPyBuffer on the committed model
SerializeTo(kind) ==
  /\ nSerialize < MaxSerialize
  /\ LET s == Serialize(kind, committed[1])
     IN  /\ s.ok
         /\ committed' = <<s.model>>
         /\ inflight' = [ kind |-> kind, data |-> s.data, names |-> s.names, self |-> TRUE,
                          major |-> TREELITE_VER_MAJOR, minor |-> TREELITE_VER_MINOR,
                          opts |-> <<0, 0, 0>> ]
  /\ loaded' = NothingLoaded
  /\ nSerialize' = nSerialize + 1
  /\ UNCHANGED <<builder, err, started, nStartNode, ctor, gtil>>

SerializeToStream == SerializeTo("stream")

SerializeToPyBuffer == SerializeTo("pybuffer")

\* a checkpoint of the committed model arrives that a writer of another
\* version stored; only a writer newer than this one fills extension slots
ReceiveStored ==
  \E kind \in {"stream", "pybuffer"}, v \in StoredVersions, opts \in [ 1..3 -> 0..MaxOpt ] :
    /\ (v[1] = TREELITE_VER_MAJOR /\ v[2] > TREELITE_VER_MINOR) \/ opts = <<0, 0, 0>>
    /\ \E w \in {StoredBy(kind, committed[1], v[1], v[2], opts)} :
         inflight' = [ kind |-> kind, data |-> w.data, names |-> w.names, self |-> FALSE,
                       major |-> v[1], minor |-> v[2], opts |-> opts ]
    /\ loaded' = NothingLoaded
    /\ UNCHANGED <<builder, err, committed, started, nStartNode, nSerialize, ctor, gtil>>

\* Model::DeserializeFromStream / Model::DeserializeFromPyBuffer on the input
DeserializeFrom(kind) ==
  /\ inflight.kind = kind
  /\ \E d \in {Deserialize(kind, inflight.data)} :
         loaded' = [ status |-> IF d.ok THEN "ok" ELSE "error", model |-> d.model,
                     warned |-> d.warned, kind |-> kind, self |-> inflight.self,
                     major |-> inflight.major, minor |-> inflight.minor,
                     opts |-> inflight.opts, written |-> inflight.names,
                     names |-> d.names ]
  /\ inflight' = NoInput
  /\ UNCHANGED <<builder, err, committed, started, nStartNode, nSerialize, ctor, gtil>>

DeserializeFromStream == DeserializeFrom("stream")

DeserializeFromPyBuffer == DeserializeFrom("pybuffer")

NextSerializer ==
  \/ SerializeToStream
  \/ SerializeToPyBuffer
  \/ ReceiveStored
  \/ DeserializeFromStream
  \/ DeserializeFromPyBuffer

SpecSerializer == InitSerializer /\ [][NextSerializer]_vars

(***************************************************************************)
(* Properties of the serializer                                            *)
(***************************************************************************)
\* C8: a model deserialized from what this build serialized from the
\* committed model M, through the byte stream or through the framed
\* buffer, loads and has the dump of M: the header fields, the number of
\* trees and every column, pool, offset and statistic array of every tree
\* are equal, also when M had been serialized before.
C8_RoundTrip ==
  (loaded.status # "none" /\ loaded.self) =>
    /\ loaded.status = "ok"
    /\ loaded.model[1].num_tree_ = Len(committed[1].trees)
    /\ Len(loaded.model[1].trees) = Len(committed[1].trees)
    /\ DumpAsJSON(loaded.model[1]) = DumpAsJSON(committed[1])

\* the second serialization of a model with a categorical test node was
\* loaded back from the framed buffer
C8_Witness ==
  /\ loaded.status = "ok"
  /\ loaded.self
  /\ loaded.kind = "pybuffer"
  /\ nSerialize = 2
  /\ \E i \in 1..Len(committed[1].trees) :
       /\ committed[1].trees[i].has_categorical_split_
       /\ committed[1].trees[i].num_nodes > 1

\* the row or column of the compatibility matrix a version belongs to
VersionClass(v) ==
  IF v = <<3, 9>> THEN "=3.9"
  ELSE IF v = <<4, 0>> THEN "=4.0"
  ELSE IF v[1] = 4 THEN ">=4.1,<5.0"
  ELSE IF v[1] >= 5 THEN ">=5.0"
  ELSE "<3.9"

\* the compatibility matrix: for each From, the To marked Yes
CompatibilityMatrix ==
  [ from \in {"<3.9", "=3.9", "=4.0", ">=4.1,<5.0", ">=5.0"} |->
      CASE from = "=3.9" -> {"=3.9", "=4.0", ">=4.1,<5.0"}
        [] from = "=4.0" -> {"=4.0", ">=4.1,<5.0", ">=5.0"}
        [] from = ">=4.1,<5.0" -> {"=4.0", ">=4.1,<5.0", ">=5.0"}
        [] from = ">=5.0" -> {">=5.0"}
        [] OTHER -> {} ]

Compatible(from, to) == VersionClass(to) \in CompatibilityMatrix[VersionClass(from)]

C10_NewerMinorSkipsOptionalFields ==
  (loaded.status # "none" /\ loaded.major = TREELITE_VER_MAJOR
     /\ loaded.minor > TREELITE_VER_MINOR) =>
    /\ loaded.status = "ok"
    /\ loaded.warned
    /\ loaded.model[1].major_ver_ = loaded.major
    /\ loaded.model[1].minor_ver_ = loaded.minor
    /\ loaded.model[1].num_opt_field_per_model_ = loaded.opts[1]
    /\ Len(loaded.model[1].trees) = Len(committed[1].trees)
    /\ \A i \in 1..Len(loaded.model[1].trees) :
         /\ loaded.model[1].trees[i].num_opt_field_per_tree_ = loaded.opts[2]
         /\ loaded.model[1].trees[i].num_opt_field_per_node_ = loaded.opts[3]
    /\ DumpAsJSON(loaded.model[1]) = DumpAsJSON(committed[1])

\* a stream of two trees with optional fields in all three slots, two of
\* them in the slot of each tree, was loaded with a warning
C10_Witness ==
  /\ loaded.status = "ok"
  /\ loaded.warned
  /\ loaded.kind = "stream"
  /\ \A k \in 1..3 : loaded.opts[k] >= 1
  /\ loaded.opts[2] = 2
  /\ Len(loaded.model[1].trees) = 2

\* the name the persisted format gives to a member or local of the code
FormatName(name) ==
  CASE name \in {"major_ver_", "major_ver"} -> "major"
    [] name \in {"minor_ver_", "minor_ver"} -> "minor"
    [] name \in {"patch_ver_", "patch_ver"} -> "patch"
    [] name \in {"threshold_type_", "threshold_type"} -> "threshold_type"
    [] name \in {"leaf_output_type_", "leaf_output_type"} -> "leaf_output_type"
    [] name = "num_tree_" -> "num_tree"
    [] name = "num_opt_field_per_model_" -> "num_opt_field_per_model"
    [] name = "has_categorical_split_" -> "has_categorical_split"
    [] name = "node_type_" -> "node_type"
    [] name = "cleft_" -> "left_child"
    [] name = "cright_" -> "right_child"
    [] name = "split_index_" -> "split_index"
    [] name = "default_left_" -> "default_left"
    [] name = "leaf_value_" -> "leaf_value"
    [] name = "threshold_" -> "threshold"
    [] name = "cmp_" -> "comparison_op"
    [] name = "category_list_right_child_" -> "category_list_right_child"
    [] name = "leaf_vector_" -> "leaf_vector"
    [] name = "leaf_vector_begin_" -> "leaf_vector_begin"
    [] name = "leaf_vector_end_" -> "leaf_vector_end"
    [] name = "category_list_" -> "category_list"
    [] name = "category_list_begin_" -> "category_list_begin"
    [] name = "category_list_end_" -> "category_list_end"
    [] name = "data_count_" -> "data_count"
    [] name = "data_count_present_" -> "data_count_present"
    [] name = "sum_hess_" -> "sum_hess"
    [] name = "sum_hess_present_" -> "sum_hess_present"
    [] name = "gain_" -> "gain"
    [] name = "gain_present_" -> "gain_present"
    [] name = "num_opt_field_per_tree_" -> "num_opt_field_per_tree"
    [] name = "num_opt_field_per_node_" -> "num_opt_field_per_node"
    [] OTHER -> name

FormatNames(names) == [ i \in 1..Len(names) |-> FormatName(names[i]) ]

\* the header layout of the persisted format, up to the count of the
\* per-model extension slot
PersistedHeader ==
  << "major", "minor", "patch", "threshold_type", "leaf_output_type", "num_tree",
     "num_feature", "task_type", "average_tree_output", "num_target", "num_class",
     "leaf_vector_shape", "target_id", "class_id", "postprocessor", "sigmoid_alpha",
     "ratio_c", "base_scores", "attributes", "num_opt_field_per_model" >>

\* the layout of a tree, up to the count of the per-tree extension slot
PersistedTree ==
  << "num_nodes", "has_categorical_split",
     "node_type", "left_child", "right_child", "split_index", "default_left",
     "leaf_value", "threshold", "comparison_op", "category_list_right_child",
     "leaf_vector", "leaf_vector_begin", "leaf_vector_end",
     "category_list", "category_list_begin", "category_list_end",
     "data_count", "data_count_present", "sum_hess", "sum_hess_present",
     "gain", "gain_present", "num_opt_field_per_tree" >>

OptionalFieldNames(n) == [ i \in 1..n |-> "optional field" ]

\* the fields of a stored model of num_tree trees with opts[1], opts[2],
\* opts[3] optional fields in the slots per model, tree and node
PersistedFormat(num_tree, opts) ==
  PersistedHeader \o OptionalFieldNames(opts[1])
    \o Concat([ i \in 1..num_tree |->
                  PersistedTree \o OptionalFieldNames(opts[2])
                    \o <<"num_opt_field_per_node">> \o OptionalFieldNames(opts[3]) ])

\* C11: the serializer emits the fields in the order of the persisted
\* format (the header up to the per-model extension count, then for each
\* tree num_nodes, has_categorical_split, the nine node columns, the two
\* pools with their begin and end arrays, the six statistic arrays and the
\* per-tree and per-node extension counts), and the deserializer consumes
\* the fields of an input it loads in exactly that order.
C11_FieldOrder ==
  /\ (inflight # NoInput /\ inflight.self) =>
       FormatNames(inflight.names) = PersistedFormat(Len(committed[1].trees), <<0, 0, 0>>)
  /\ loaded.status = "ok" =>
       /\ FormatNames(loaded.names) = FormatNames(loaded.written)
       /\ FormatNames(loaded.names)
            = PersistedFormat(Len(loaded.model[1].trees), loaded.opts)

\* a stream of two trees written by this build was consumed
C11_Witness ==
  /\ loaded.status = "ok"
  /\ loaded.self
  /\ loaded.kind = "stream"
  /\ Len(loaded.model[1].trees) = 2
  /\ Len(loaded.names) = Len(PersistedHeader) + 2 * (Len(PersistedTree) + 1)

(***************************************************************************)
(* GTIL (gtil/predict.cc, gtil/output_shape.cc): prediction with a model.  *)
(* A feature value is [nan, h]: NaN, or the number h / 2; thresholds, leaf *)
(* outputs and base scores are whole numbers.                              *)
(***************************************************************************)
\* rows of the input of one Predict call
MaxRow == 2
\* worker threads of one Predict call
MaxThread == 2

NaN == [ nan |-> TRUE, h |-> 0 ]

Num(h) == [ nan |-> FALSE, h |-> h ]

\* Tree::AddChilds: [ok, t]
AddChilds(t, nid) ==
  LET a == AllocNode(t)
      b == AllocNode(a.t)
  IN  [ ok |-> a.ok /\ b.ok, t |-> SetChildren(b.t, nid, a.nd, b.nd) ]

\* Tree::LeftChild / RightChild / DefaultChild / SplitIndex
LeftChild(t, nid) == t.cleft_[nid + 1]

RightChild(t, nid) == t.cright_[nid + 1]

DefaultChild(t, nid) ==
  IF t.default_left_[nid + 1] THEN t.cleft_[nid + 1] ELSE t.cright_[nid + 1]

SplitIndex(t, nid) == t.split_index_[nid + 1]

\* Tree::HasLeafVector / LeafVector (TreeLeafVector) / LeafValue / CategoryList
HasLeafVector(t, nid) == t.leaf_vector_begin_[nid + 1] # t.leaf_vector_end_[nid + 1]

TreeLeafVector(t, nid) ==
  LET offset_begin == t.leaf_vector_begin_[nid + 1]
      offset_end == t.leaf_vector_end_[nid + 1]
  IN  IF offset_begin >= Len(t.leaf_vector_) \/ offset_end > Len(t.leaf_vector_)
        THEN <<>>
        ELSE SubSeq(t.leaf_vector_, offset_begin + 1, offset_end)

LeafValue(t, nid) == t.leaf_value_[nid + 1]

CategoryList(t, nid) ==
  SubSeq(t.matching_categories_, t.matching_categories_offset_[nid + 1] + 1,
         t.matching_categories_offset_[nid + 2])

\* NextNode: fvalue <op> threshold ? left_child : right_child; -1 after the
\* failed check of an unrecognized operator
NextNode(fvalue, threshold, op, left_child, right_child) ==
  LET cond == CASE op = "kLT" -> fvalue.h < 2 * threshold
                [] op = "kLE" -> fvalue.h <= 2 * threshold
                [] op = "kEQ" -> fvalue.h = 2 * threshold
                [] op = "kGT" -> fvalue.h > 2 * threshold
                [] op = "kGE" -> fvalue.h >= 2 * threshold
                [] OTHER -> FALSE
  IN  IF op \notin {"kLT", "kLE", "kEQ", "kGT", "kGE"} THEN -1
      ELSE IF cond THEN left_child ELSE right_child

\* min(UINT32_MAX, 1 << numeric_limits<float>::digits) for InputT = float
MaxRepresentableInt == 16777216

\* static_cast<std::uint32_t>(fvalue) of a value in [0, MaxRepresentableInt]
CastToUInt32(fvalue) == fvalue.h \div 2

\* NextNodeCategorical
NextNodeCategorical(fvalue, category_list, category_list_right_child, left_child, right_child) ==
  LET category_matched ==
        IF fvalue.h < 0 \/ fvalue.h > 2 * MaxRepresentableInt THEN FALSE
        ELSE \E i \in 1..Len(category_list) : category_list[i] = CastToUInt32(fvalue)
  IN  IF category_list_right_child
        THEN (IF category_matched THEN right_child ELSE left_child)
        ELSE (IF category_matched THEN left_child ELSE right_child)

\* stdex::submdspan(input_view, row_id, stdex::full_extent): a view of
\* num_feature elements of the row-major input
RowView(input, num_feature, row_id) ==
  [ data |-> input, offset |-> row_id * num_feature, extent |-> num_feature ]

\* row(split_index): [v, oob]; the view does not check the index, so an
\* index not below the extent reads the element of a later row, or past
\* the end of the input whatever lies there
RowAt(row, split_index, beyond) ==
  [ v |-> IF row.offset + split_index < Len(row.data)
            THEN row.data[row.offset + split_index + 1] ELSE beyond,
    oob |-> split_index >= row.extent ]

\* the loop of EvaluateTree at node_id, with fuel iterations observed before
\* the walk is known to repeat: [kind, node_id, oob], kind "leaf", "loop"
\* (the loop never ends) or "check" (the check of NextNode failed)
RECURSIVE EvaluateTreeFrom(_, _, _, _, _, _)
EvaluateTreeFrom(tree, row, beyond, node_id, fuel, oob) ==
  IF IsLeaf(tree, node_id) THEN [ kind |-> "leaf", node_id |-> node_id, oob |-> oob ]
  ELSE IF fuel = 0 THEN [ kind |-> "loop", node_id |-> node_id, oob |-> oob ]
  ELSE CHOOSE res \in
    { LET next == IF f.v.nan THEN DefaultChild(tree, node_id)
                  ELSE IF tree.node_type_[node_id + 1] = "kCategoricalTestNode"
                    THEN NextNodeCategorical(f.v, CategoryList(tree, node_id),
                                             tree.category_list_right_child_[node_id + 1],
                                             LeftChild(tree, node_id),
                                             RightChild(tree, node_id))
                  ELSE NextNode(f.v, tree.threshold_[node_id + 1], tree.cmp_[node_id + 1],
                                LeftChild(tree, node_id), RightChild(tree, node_id))
      IN  IF next < 0 THEN [ kind |-> "check", node_id |-> node_id, oob |-> oob \/ f.oob ]
          ELSE EvaluateTreeFrom(tree, row, beyond, next, fuel - 1, oob \/ f.oob)
      : f \in {RowAt(row, SplitIndex(tree, node_id), beyond)} } : TRUE

\* EvaluateTree: a walk that has left num_nodes test nodes behind repeats one
EvaluateTree(tree, row, beyond) == EvaluateTreeFrom(tree, row, beyond, 0, tree.num_nodes, FALSE)

\* the cells (target, row, class) of output_view: 0-based triples
OutputCells(num_target, num_row, max_num_class) ==
  (0..(num_target - 1)) \X (0..(num_row - 1)) \X (0..(max_num_class - 1))

\* output_view(cell) += add[cell] for the cells of add
AddToCells(output, add) ==
  [ cell \in DOMAIN output |->
      IF cell \in DOMAIN add THEN output[cell] + add[cell] ELSE output[cell] ]

\* OutputLeafVector: [ok, output, cells]; ok is FALSE when the check of
\* leaf_vector_shape fails, cells are the cells of output_view accessed
OutputLeafVector(model, tree, tree_id, leaf_id, row_id, max_num_class, output_view) ==
  LET leaf_out == TreeLeafVector(tree, leaf_id)
      tid == model.target_id[tree_id + 1]
      cid == model.class_id[tree_id + 1]
      expected_shape ==
        IF tid = -1 /\ cid = -1 THEN <<model.num_target, max_num_class>>
        ELSE IF tid = -1 THEN <<model.num_target, 1>>
        ELSE IF cid = -1 THEN <<1, max_num_class>>
        ELSE <<1, 1>>
      add ==
        IF tid = -1 /\ cid = -1
          THEN [ cell \in { <<t, row_id, c>> : t \in 0..(model.num_target - 1),
                                               c \in 0..(max_num_class - 1) }
                          \cap { x \in DOMAIN output_view : x[3] < model.num_class[x[1] + 1] }
                   |-> leaf_out[cell[1] * max_num_class + cell[3] + 1] ]
        ELSE IF tid = -1
          THEN [ cell \in { <<t, row_id, cid>> : t \in 0..(model.num_target - 1) }
                   |-> leaf_out[cell[1] + 1] ]
        ELSE IF cid = -1
          THEN [ cell \in { <<tid, row_id, c>> : c \in 0..(model.num_class[tid + 1] - 1) }
                   |-> leaf_out[cell[3] + 1] ]
        ELSE [ cell \in { <<tid, row_id, cid>> } |-> leaf_out[1] ]
  IN  IF model.leaf_vector_shape # expected_shape
        THEN [ ok |-> FALSE, output |-> output_view, cells |-> {} ]
        ELSE [ ok |-> TRUE, output |-> AddToCells(output_view, add), cells |-> DOMAIN add ]

\* OutputLeafValue adding to class 0 of the target instead of class_id
OutputLeafValueFirstClass(model, tree, tree_id, leaf_id, row_id, max_num_class, output_view) ==
  LET tid == model.target_id[tree_id + 1]
      cid == model.class_id[tree_id + 1]
      add == [ cell \in { <<tid, row_id, 0>> } |-> LeafValue(tree, leaf_id) ]
  IN  IF ~(tid # -1 /\ cid # -1) \/ model.leaf_vector_shape # <<1, 1>>
        THEN [ ok |-> FALSE, output |-> output_view, cells |-> {} ]
        ELSE [ ok |-> TRUE, output |-> AddToCells(output_view, add), cells |-> DOMAIN add ]

\* OutputLeafValue: [ok, output, cells]
OutputLeafValue(model, tree, tree_id, leaf_id, row_id, max_num_class, output_view) ==
  LET tid == model.target_id[tree_id + 1]
      cid == model.class_id[tree_id + 1]
      add == [ cell \in { <<tid, row_id, cid>> } |-> LeafValue(tree, leaf_id) ]
  IN  IF ~(tid # -1 /\ cid # -1) \/ model.leaf_vector_shape # <<1, 1>>
        THEN [ ok |-> FALSE, output |-> output_view, cells |-> {} ]
        ELSE [ ok |-> TRUE, output |-> AddToCells(output_view, add), cells |-> DOMAIN add ]

\* the body of the row loop of PredictRaw adding to row 0 of the output
\* whatever row it evaluates
PredictRawRowTreeFirstRow(model, input, row_id, tree_id, beyond, output_view) ==
  CHOOSE res \in
    { IF e.kind # "leaf"
        THEN [ kind |-> e.kind, output |-> output_view, cells |-> {}, oob |-> e.oob,
               leaf_id |-> -1 ]
        ELSE LET tree == model.trees[tree_id + 1]
                 max_num_class == MaxElement(model.num_class)
                 o == IF HasLeafVector(tree, e.node_id)
                        THEN OutputLeafVector(model, tree, tree_id, e.node_id, 0,
                                              max_num_class, output_view)
                        ELSE OutputLeafValue(model, tree, tree_id, e.node_id, 0,
                                             max_num_class, output_view)
             IN  [ kind |-> IF o.ok THEN "ok" ELSE "check", output |-> o.output,
                   cells |-> o.cells, oob |-> e.oob, leaf_id |-> e.node_id ]
      : e \in {EvaluateTree(model.trees[tree_id + 1],
                             RowView(input, model.num_feature, row_id), beyond)} } : TRUE

\* the body of the row loop of PredictRaw for one tree: [kind, output,
\* cells, oob, leaf_id], kind "ok", "loop" or "check"
PredictRawRowTree(model, input, row_id, tree_id, beyond, output_view) ==
  CHOOSE res \in
    { IF e.kind # "leaf"
        THEN [ kind |-> e.kind, output |-> output_view, cells |-> {}, oob |-> e.oob,
               leaf_id |-> -1 ]
        ELSE LET tree == model.trees[tree_id + 1]
                 max_num_class == MaxElement(model.num_class)
                 o == IF HasLeafVector(tree, e.node_id)
                        THEN OutputLeafVector(model, tree, tree_id, e.node_id, row_id,
                                              max_num_class, output_view)
                        ELSE OutputLeafValue(model, tree, tree_id, e.node_id, row_id,
                                             max_num_class, output_view)
             IN  [ kind |-> IF o.ok THEN "ok" ELSE "check", output |-> o.output,
                   cells |-> o.cells, oob |-> e.oob, leaf_id |-> e.node_id ]
      : e \in {EvaluateTree(model.trees[tree_id + 1],
                             RowView(input, model.num_feature, row_id), beyond)} } : TRUE

\* the body of the row loop of PredictLeaf for one tree
PredictLeafRowTree(model, input, row_id, tree_id, beyond, output_view) ==
  CHOOSE res \in
    { IF e.kind # "leaf"
        THEN [ kind |-> e.kind, output |-> output_view, cells |-> {}, oob |-> e.oob,
               leaf_id |-> -1 ]
        ELSE [ kind |-> "ok", oob |-> e.oob, cells |-> { <<row_id, tree_id>> },
               leaf_id |-> e.node_id,
               output |-> [ output_view EXCEPT ![<<row_id, tree_id>>] = e.node_id ] ]
      : e \in {EvaluateTree(model.trees[tree_id + 1],
                             RowView(input, model.num_feature, row_id), beyond)} } : TRUE

\* the loop of PredictRaw that adds the base scores
AddBaseScores(model, num_row, output_view) ==
  LET max_num_class == MaxElement(model.num_class)
  IN  [ cell \in DOMAIN output_view |->
          IF cell[3] < model.num_class[cell[1] + 1]
            THEN output_view[cell] + model.base_scores[cell[1] * max_num_class + cell[3] + 1]
            ELSE output_view[cell] ]

\* GetOutputSize (GetOutputShape in the tests)
GetOutputSize(model, num_row, pred_type) ==
  LET num_tree == Len(model.trees)
      max_num_class == MaxElement(model.num_class)
  IN  CASE pred_type \in {"kPredictDefault", "kPredictRaw"} ->
             IF model.num_target > 1 THEN <<model.num_target, num_row, max_num_class>>
             ELSE <<num_row, max_num_class>>
        [] pred_type = "kPredictLeafID" -> <<num_row, num_tree>>
        [] pred_type = "kPredictPerTree" ->
             <<num_row, num_tree, model.leaf_vector_shape[1] * model.leaf_vector_shape[2]>>

\* ParallelFor with a static schedule: the rows [begin, end) of worker w
\* of nthread, in contiguous chunks
StaticChunk(num_row, nthread, w) ==
  LET chunk == (num_row + nthread - 1) \div nthread
      lo == (w - 1) * chunk
      hi == w * chunk
  IN  [ begin |-> IF lo < num_row THEN lo ELSE num_row,
        end |-> IF hi < num_row THEN hi ELSE num_row ]

(***************************************************************************)
(* Models for prediction, made with the Tree interface as the model        *)
(* loaders make them (Init, AddChilds, SetNumericalSplit, SetLeaf, ...)    *)
(***************************************************************************)
\* SetLeaf for an output of one element, SetLeafVector for a longer one
SetLeafOutput(t, nid, out) ==
  IF Len(out) = 1 THEN SetLeaf(t, nid, out[1]) ELSE SetLeafVector(t, nid, out)

\* a root test node with two leaves: nodes 0, 1 (left) and 2 (right)
Stump(test, left, right) ==
  LET t1 == AddChilds(TreeInit(NewTree), 0).t
      t2 == IF test.categorical
              THEN SetCategoricalSplit(t1, 0, test.split_index, test.default_left,
                                       test.category_list, test.category_list_right_child).t
              ELSE SetNumericalSplit(t1, 0, test.split_index, test.threshold,
                                     test.default_left, test.cmp).t
  IN  SetLeafOutput(SetLeafOutput(t2, 1, left), 2, right)

\* a root test node that lists itself as its left child; node 1 is a leaf
SelfLoop(test, right) ==
  LET t1 == AllocNode(TreeInit(NewTree)).t
      t2 == SetNumericalSplit(SetChildren(t1, 0, 0, 1), 0, test.split_index, test.threshold,
                              test.default_left, test.cmp).t
  IN  SetLeafOutput(t2, 1, right)

\* feature split_index < threshold goes left
LessThan(split_index, threshold, default_left) ==
  [ categorical |-> FALSE, split_index |-> split_index, threshold |-> threshold,
    default_left |-> default_left, cmp |-> "kLT" ]

\* feature split_index in category_list goes right
InCategories(split_index, category_list, default_left) ==
  [ categorical |-> TRUE, split_index |-> split_index, default_left |-> default_left,
    category_list |-> category_list, category_list_right_child |-> TRUE ]

\* a float32 model with the given header fields and trees
PredictModel(num_feature, average, num_class, shape, target_id, class_id, base_scores, trees) ==
  [ NewModel("kFloat32", "kFloat32", 1, 1) EXCEPT
      !.num_feature = num_feature, !.task_type = "kMultiClf",
      !.average_tree_output = average,
      !.num_target = Len(num_class), !.num_class = num_class,
      !.leaf_vector_shape = shape, !.target_id = target_id, !.class_id = class_id,
      !.base_scores = base_scores, !.trees = trees ]

PredictCaseNames ==
  { "GrovePerClass", "LeafVectorRF", "MultiTarget", "MultiTargetClass",
    "Categorical", "SelfLoop", "FeatureOutOfRange" }

\* the model of a case
PredictCaseModel(name) ==
  CASE name = "GrovePerClass" ->
         PredictModel(1, FALSE, <<3>>, <<1, 1>>, <<0, 0>>, <<0, 2>>, <<3, 2, 5>>,
           << Stump(LessThan(0, 0, TRUE), <<-10>>, <<10>>),
              Stump(LessThan(0, 0, FALSE), <<5>>, <<15>>) >>)
    [] name = "LeafVectorRF" ->
         PredictModel(1, TRUE, <<3>>, <<1, 3>>, <<0, 0>>, <<-1, -1>>, <<100, 200, 300>>,
           << Stump(LessThan(0, 0, TRUE), <<2, 0, 0>>, <<0, 4, 4>>),
              Stump(LessThan(0, 0, TRUE), <<2, 0, 0>>, <<0, 4, 4>>) >>)
    [] name = "MultiTarget" ->
         PredictModel(1, FALSE, <<1, 2>>, <<2, 2>>, <<-1>>, <<-1>>, <<10, 20, 30, 40>>,
           << Stump(LessThan(0, 0, TRUE), <<1, 2, 3, 4>>, <<5, 6, 7, 8>>) >>)
    [] name = "MultiTargetClass" ->
         PredictModel(1, FALSE, <<2, 2>>, <<2, 1>>, <<-1>>, <<1>>, <<10, 20, 30, 40>>,
           << Stump(LessThan(0, 0, TRUE), <<1, 2>>, <<3, 4>>) >>)
    [] name = "Categorical" ->
         PredictModel(1, FALSE, <<1>>, <<1, 1>>, <<0>>, <<0>>, <<0>>,
           << Stump(InCategories(0, <<2, 5, 7>>, FALSE), <<1>>, <<2>>) >>)
    [] name = "SelfLoop" ->
         PredictModel(1, FALSE, <<1>>, <<1, 1>>, <<0>>, <<0>>, <<0>>,
           << SelfLoop(LessThan(0, 0, FALSE), <<2>>) >>)
    [] name = "FeatureOutOfRange" ->
         PredictModel(1, FALSE, <<1>>, <<1, 1>>, <<0>>, <<0>>, <<0>>,
           << Stump(LessThan(1, 0, TRUE), <<1>>, <<2>>) >>)

\* the rows a case is predicted with: 5.0, 3.0, 5.5, -1.0, NaN, 2^25 for
\* the categorical test, 1.0, -1.0 and NaN for the others
PredictCaseRows(name) ==
  IF name = "Categorical"
    THEN { <<Num(10)>>, <<Num(6)>>, <<Num(11)>>, <<Num(-2)>>, <<NaN>> }
    ELSE IF name = "GrovePerClass" THEN { <<Num(2)>>, <<Num(-2)>>, <<NaN>> }
    ELSE { <<Num(2)>>, <<Num(-2)>> }

\* the inputs of a case: 1..MaxRow rows, row-major
PredictInputs(name) ==
  UNION { { Concat(rows) : rows \in [ 1..n -> PredictCaseRows(name) ] } : n \in 1..MaxRow }

PredictKinds == { "kPredictDefault", "kPredictRaw", "kPredictLeafID", "kPredictPerTree" }

\* what may lie in the caller's output buffer before the call
BufferContents == { 0, 7 }

\* what may lie past the end of the input
BeyondValues == { NaN, Num(2), Num(-2) }

(***************************************************************************)
(* One gtil::Predict call, the rows of ParallelFor one (row, tree) at a    *)
(* time                                                                    *)
(***************************************************************************)
\* no builder takes part in a prediction
NoBuilder == [ state |-> "none" ]

InitPredict ==
  /\ builder = NoBuilder /\ err = "none" /\ committed = <<>> /\ started = <<>>
  /\ nStartNode = 0 /\ inflight = NoInput /\ loaded = NothingLoaded /\ nSerialize = 0
  /\ ctor = NoConstruction
  /\ \E name \in PredictCaseNames : \E input \in PredictInputs(name) :
     \E input_type \in { "kFloat32", "kFloat64" } : \E pred_type \in PredictKinds :
     \E nthread \in 1..MaxThread : \E fill \in BufferContents : \E beyond \in BeyondValues :
       gtil = [ phase |-> "init", name |-> name, model |-> PredictCaseModel(name),
                input |-> input, num_row |-> Len(input) \div PredictCaseModel(name).num_feature,
                input_type |-> input_type, pred_type |-> pred_type, nthread |-> nthread,
                fill |-> fill, beyond |-> beyond, shape |-> <<>>, output |-> <<>>,
                workers |-> <<>>, touched |-> {}, leaf |-> <<>>, oob |-> FALSE ]

\* the caller asks for the shape of the output and allocates the buffer
GetOutputShape ==
  /\ gtil.phase = "init"
  /\ gtil' = [ gtil EXCEPT !.phase = "allocated",
                 !.shape = GetOutputSize(gtil.model, gtil.num_row, gtil.pred_type) ]
  /\ UNCHANGED <<builder, err, committed, started, nStartNode, inflight, loaded, nSerialize, ctor>>

\* the workers of ParallelFor over [0, num_row) with nthread threads
StartWorkers(num_row, nthread) ==
  [ w \in 1..nthread |->
      LET c == StaticChunk(num_row, nthread, w)
      IN  [ row_id |-> c.begin, end |-> c.end, tree_id |-> 0,
            status |-> IF c.begin < c.end THEN "run" ELSE "done" ] ]

\* Predict up to the start of ParallelFor: the type check, the dispatch on
\* pred_type, and the views and the zero fill of PredictRaw / PredictLeaf
Predict ==
  /\ gtil.phase = "allocated"
  /\ LET model == gtil.model
         max_num_class == MaxElement(model.num_class)
         running == [ gtil EXCEPT !.phase = "running",
                        !.workers = StartWorkers(gtil.num_row, gtil.nthread),
                        !.leaf = [ x \in (0..(gtil.num_row - 1)) \X (0..(Len(model.trees) - 1))
                                     |-> -1 ] ]
     IN  IF model.variant_leaf_output # gtil.input_type
           THEN gtil' = [ gtil EXCEPT !.phase = "fatal" ]
         ELSE IF gtil.pred_type = "kPredictDefault"
           THEN gtil' = [ gtil EXCEPT !.phase = "fatal" ]
         ELSE IF gtil.pred_type = "kPredictRaw"
           THEN gtil' = [ running EXCEPT !.output =
                  [ cell \in OutputCells(model.num_target, gtil.num_row, max_num_class) |-> 0 ] ]
         ELSE IF gtil.pred_type = "kPredictLeafID"
           THEN gtil' = [ running EXCEPT !.output =
                  [ cell \in (0..(gtil.num_row - 1)) \X (0..(Len(model.trees) - 1))
                      |-> gtil.fill ] ]
         ELSE gtil' = [ gtil EXCEPT !.phase = "fatal" ]
  /\ UNCHANGED <<builder, err, committed, started, nStartNode, inflight, loaded, nSerialize, ctor>>

\* worker w runs the body of the loop over the trees for its current row
ParallelForBody(w) ==
  /\ gtil.phase = "running"
  /\ w \in 1..Len(gtil.workers)
  /\ gtil.workers[w].status = "run"
  /\ LET me == gtil.workers[w]
         num_tree == Len(gtil.model.trees)
     IN  \E res \in { IF gtil.pred_type = "kPredictRaw"
                        THEN PredictRawRowTree(gtil.model, gtil.input, me.row_id, me.tree_id,
                                               gtil.beyond, gtil.output)
                        ELSE PredictLeafRowTree(gtil.model, gtil.input, me.row_id, me.tree_id,
                                                gtil.beyond, gtil.output) } :
           LET last_tree == me.tree_id + 1 = num_tree
               last_row == me.row_id + 1 = me.end
               next == IF res.kind = "loop" THEN [ me EXCEPT !.status = "loop" ]
                       ELSE IF res.kind = "check" THEN [ me EXCEPT !.status = "threw" ]
                       ELSE IF ~last_tree THEN [ me EXCEPT !.tree_id = me.tree_id + 1 ]
                       ELSE IF ~last_row THEN [ me EXCEPT !.row_id = me.row_id + 1,
                                                         !.tree_id = 0 ]
                       ELSE [ me EXCEPT !.row_id = me.end, !.tree_id = 0, !.status = "done" ]
           IN  gtil' = [ gtil EXCEPT
                 !.output = res.output,
                 !.workers[w] = next,
                 !.touched = @ \cup { <<w, cell>> : cell \in res.cells },
                 !.leaf = IF res.kind = "loop" THEN @
                          ELSE [ @ EXCEPT ![<<me.row_id, me.tree_id>>] = res.leaf_id ],
                 !.oob = @ \/ res.oob ]
  /\ UNCHANGED <<builder, err, committed, started, nStartNode, inflight, loaded, nSerialize, ctor>>

\* ParallelFor returns when every worker has ended, and throws what a
\* worker threw; PredictRaw then adds the base scores
PredictReturn ==
  /\ gtil.phase = "running"
  /\ \A w \in 1..Len(gtil.workers) : gtil.workers[w].status \in { "done", "threw" }
  /\ IF \E w \in 1..Len(gtil.workers) : gtil.workers[w].status = "threw"
       THEN gtil' = [ gtil EXCEPT !.phase = "fatal" ]
     ELSE IF gtil.pred_type = "kPredictRaw"
       THEN gtil' = [ gtil EXCEPT !.phase = "done",
                        !.output = AddBaseScores(gtil.model, gtil.num_row, gtil.output) ]
     ELSE gtil' = [ gtil EXCEPT !.phase = "done" ]
  /\ UNCHANGED <<builder, err, committed, started, nStartNode, inflight, loaded, nSerialize, ctor>>

NextPredict ==
  \/ GetOutputShape
  \/ Predict
  \/ \E w \in 1..MaxThread : ParallelForBody(w)
  \/ PredictReturn

SpecPredict == InitPredict /\ [][NextPredict]_vars

(***************************************************************************)
(* Properties of prediction                                                *)
(***************************************************************************)
\* what the leaf leaf_id of tree tree_id is to add to cell (t, any row, c)
RoutedOutput(model, tree_id, leaf_id, t, c) ==
  LET tree == model.trees[tree_id + 1]
      tid == model.target_id[tree_id + 1]
      cid == model.class_id[tree_id + 1]
      max_num_class == MaxElement(model.num_class)
      vec == TreeLeafVector(tree, leaf_id)
  IN  IF ~HasLeafVector(tree, leaf_id)
        THEN (IF t = tid /\ c = cid THEN LeafValue(tree, leaf_id) ELSE 0)
      ELSE IF tid >= 0 /\ cid >= 0 THEN (IF t = tid /\ c = cid THEN vec[1] ELSE 0)
      ELSE IF tid >= 0
        THEN (IF t = tid /\ c < model.num_class[t + 1] THEN vec[c + 1] ELSE 0)
      ELSE IF cid >= 0 THEN (IF c = cid THEN vec[t + 1] ELSE 0)
      ELSE (IF c < model.num_class[t + 1] THEN vec[t * max_num_class + c + 1] ELSE 0)

\* whether tree tree_id adds to cell (t, any row, c)
Routes(model, tree_id, t, c) ==
  LET tid == model.target_id[tree_id + 1]
      cid == model.class_id[tree_id + 1]
  IN  /\ tid = -1 \/ tid = t
      /\ IF cid = -1 THEN c < model.num_class[t + 1] ELSE cid = c

\* the sum of RoutedOutput over the trees below num_tree, for row r
RECURSIVE SumRouted(_, _, _, _, _, _)
SumRouted(model, leaf, num_tree, t, r, c) ==
  IF num_tree = 0 THEN 0
  ELSE SumRouted(model, leaf, num_tree - 1, t, r, c)
         + RoutedOutput(model, num_tree - 1, leaf[<<r, num_tree - 1>>], t, c)

\* base_scores[t][c]
BaseScore(model, t, c) == model.base_scores[t * MaxElement(model.num_class) + c + 1]

NumRouting(model, t, c) ==
  Cardinality({ k \in 0..(Len(model.trees) - 1) : Routes(model, k, t, c) })

\* C13: with average_tree_output, after a raw prediction every cell
\* (t, r, c) holds base_scores[t][c] plus the sum routed to it divided by the
\* number n of trees adding to it: (output - base) * n = sum
C13_AverageTreeOutput ==
  (gtil.phase = "done" /\ gtil.pred_type = "kPredictRaw" /\ gtil.model.average_tree_output) =>
    \A cell \in DOMAIN gtil.output :
      (cell[3] < gtil.model.num_class[cell[1] + 1]
         /\ NumRouting(gtil.model, cell[1], cell[3]) > 0) =>
        (gtil.output[cell] - BaseScore(gtil.model, cell[1], cell[3]))
            * NumRouting(gtil.model, cell[1], cell[3])
          = SumRouted(gtil.model, gtil.leaf, Len(gtil.model.trees),
                      cell[1], cell[2], cell[3])

\* C14: a Predict call of kind default on an input of the model's type does
\* not end in a fatal error
C14_DefaultPredictSucceeds ==
  (gtil.pred_type = "kPredictDefault" /\ gtil.input_type = gtil.model.variant_leaf_output) =>
    gtil.phase # "fatal"

\* whether a feature value is a category of the list: a whole number, not
\* negative, not above MaxRepresentableInt, and a member
MatchesCategory(fvalue, category_list) ==
  /\ ~fvalue.nan /\ fvalue.h >= 0 /\ fvalue.h % 2 = 0
  /\ fvalue.h \div 2 <= MaxRepresentableInt
  /\ \E i \in 1..Len(category_list) : category_list[i] = fvalue.h \div 2

\* the child the categorical test node nid is to send a feature value to
CategoricalChild(tree, nid, fvalue) ==
  IF fvalue.nan THEN DefaultChild(tree, nid)
  ELSE IF MatchesCategory(fvalue, CategoryList(tree, nid))
            = tree.category_list_right_child_[nid + 1]
    THEN RightChild(tree, nid)
  ELSE LeftChild(tree, nid)

\* C15: every tree whose root is a categorical test node with two leaves
\* has sent each row it was evaluated on to the child the claim names
C15_CategoricalMatch ==
  gtil.phase \in { "running", "done" } =>
    \A x \in DOMAIN gtil.leaf :
      LET tree == gtil.model.trees[x[2] + 1]
          fvalue == gtil.input[x[1] * gtil.model.num_feature + SplitIndex(tree, 0) + 1]
      IN  (/\ tree.node_type_[1] = "kCategoricalTestNode"
           /\ SplitIndex(tree, 0) < gtil.model.num_feature
           /\ IsLeaf(tree, LeftChild(tree, 0)) /\ IsLeaf(tree, RightChild(tree, 0))
           /\ gtil.leaf[x] # -1) =>
            gtil.leaf[x] = CategoricalChild(tree, 0, fvalue)

\* the shape the output of a prediction is to have
ExpectedShape(model, num_row, pred_type) ==
  LET max_num_class == MaxElement(model.num_class)
  IN  CASE pred_type \in { "kPredictDefault", "kPredictRaw" } ->
             IF model.num_target = 1 THEN <<num_row, max_num_class>>
             ELSE <<model.num_target, num_row, max_num_class>>
        [] pred_type = "kPredictLeafID" -> <<num_row, Len(model.trees)>>
        [] pred_type = "kPredictPerTree" -> <<num_row, Len(model.trees), max_num_class>>

\* C16: the shape reported for a prediction is (num_row, max_num_class) or
\* (num_target, num_row, max_num_class) for default and raw, (num_row,
\* num_tree) for leaf_id and (num_row, num_tree, max_num_class) for
\* score_per_tree
C16_OutputShape ==
  gtil.phase \notin { "none", "init" } =>
    gtil.shape = ExpectedShape(gtil.model, gtil.num_row, gtil.pred_type)

\* the row of a cell of the output: (target, row, class) of a raw
\* prediction, (row, tree) of a leaf_id prediction
CellRow(cell) == IF Len(cell) = 3 THEN cell[2] ELSE cell[1]

\* the loop over the rows and the trees run by one thread in order, from
\* the i-th of n (row, tree) iterations on
RECURSIVE PredictInOrderFrom(_, _, _, _, _, _, _)
PredictInOrderFrom(model, input, pred_type, beyond, output, i, n) ==
  IF i = n THEN output
  ELSE CHOOSE res \in
    { PredictInOrderFrom(model, input, pred_type, beyond, r.output, i + 1, n)
      : r \in { IF pred_type = "kPredictRaw"
                  THEN PredictRawRowTree(model, input, i \div Len(model.trees),
                                         i % Len(model.trees), beyond, output)
                  ELSE PredictLeafRowTree(model, input, i \div Len(model.trees),
                                          i % Len(model.trees), beyond, output) } } : TRUE

\* the output one thread leaves in the buffer the workers started with
PredictInOrder(model, input, num_row, pred_type, beyond, output) ==
  LET out == PredictInOrderFrom(model, input, pred_type, beyond, output, 0,
                                num_row * Len(model.trees))
  IN  IF pred_type = "kPredictRaw" THEN AddBaseScores(model, num_row, out) ELSE out

\* C17: a worker accesses only cells of the rows of its chunk, no cell is
\* accessed by two workers, and the output of a raw or leaf_id prediction
\* that has ended is the one a single thread taking the rows in order
\* leaves, whatever nthread and the interleaving were
C17_RowPartitioned ==
  gtil.phase \in { "running", "done" } =>
    /\ \A x \in gtil.touched :
          /\ x[1] \in 1..gtil.nthread
          /\ CellRow(x[2]) >= ((x[1] - 1) * gtil.num_row) \div gtil.nthread
          /\ CellRow(x[2]) < gtil.num_row
          /\ \A y \in gtil.touched : y[2] = x[2] => y[1] = x[1]
    /\ gtil.phase = "done" =>
          gtil.output
            = PredictInOrder(gtil.model, gtil.input, gtil.num_row, gtil.pred_type, gtil.beyond,
                [ cell \in DOMAIN gtil.output |->
                    IF gtil.pred_type = "kPredictRaw" THEN 0 ELSE gtil.fill ])

\* two workers have each predicted one row of a raw prediction of two
\* different rows, and the prediction has ended
C17_Witness ==
  /\ gtil.phase = "done" /\ gtil.pred_type = "kPredictRaw" /\ gtil.nthread = 2
  /\ gtil.name = "GrovePerClass" /\ gtil.input = <<Num(2), Num(-2)>>
  /\ <<1, <<0, 0, 0>>>> \in gtil.touched /\ <<2, <<0, 1, 2>>>> \in gtil.touched
  /\ gtil.output[<<0, 0, 0>>] = 13 /\ gtil.output[<<0, 1, 0>>] = -7

\* C18: no worker is in an evaluation of a tree that never ends: a walk
\* that does not reach a leaf within num_nodes nodes is a fatal error
C18_EvaluateTreeTerminates ==
  gtil.phase = "running" =>
    \A w \in 1..Len(gtil.workers) : gtil.workers[w].status # "loop"

\* whether a test node of the model has a split index not below num_feature
HasFeatureOutOfRange(model) ==
  \E k \in 1..Len(model.trees) : \E nid \in 0..(model.trees[k].num_nodes - 1) :
    /\ ~IsLeaf(model.trees[k], nid)
    /\ SplitIndex(model.trees[k], nid) >= model.num_feature

\* C19: no evaluation has read outside the input row, and a prediction
\* with a model that has a split index not below num_feature does not end
\* with an output
C19_FeatureIndexChecked ==
  /\ ~gtil.oob
  /\ HasFeatureOutOfRange(gtil.model) => gtil.phase # "done"

(***************************************************************************)
(* Construction of a builder (metadata.cc, model_builder.cc): Metadata and *)
(* TreeAnnotation are constructed from the caller's arguments and passed   *)
(* to GetModelBuilder                                                      *)
(***************************************************************************)
\* Metadata::Metadata: [ok, metadata]
Metadata(num_feature, task_type, average_tree_output, num_target, num_class, leaf_vector_shape) ==
  [ ok |-> /\ num_target > 0
           /\ Len(num_class) = num_target
           /\ \A i \in 1..Len(num_class) : num_class[i] >= 1
           /\ leaf_vector_shape[1] = 1 \/ leaf_vector_shape[1] = num_target
           /\ leaf_vector_shape[2] = 1 \/ leaf_vector_shape[2] = MaxElement(num_class),
    metadata |-> [ num_feature |-> num_feature, task_type |-> task_type,
                   average_tree_output |-> average_tree_output, num_target |-> num_target,
                   num_class |-> num_class, leaf_vector_shape |-> leaf_vector_shape ] ]

\* TreeAnnotation::TreeAnnotation: [ok, tree_annotation]
TreeAnnotation(num_tree, target_id, class_id) ==
  [ ok |-> Len(target_id) = num_tree /\ Len(class_id) = num_tree,
    tree_annotation |-> [ num_tree |-> num_tree, target_id |-> target_id,
                          class_id |-> class_id ] ]

\* the arguments a caller constructs the metadata of a builder from
MetadataArguments ==
  [ num_target : 0..2,
    num_class : { <<>>, <<0>>, <<1>>, <<2>>, <<1, 2>>, <<2, 2>> },
    leaf_vector_shape : { <<1, 1>>, <<1, 2>>, <<2, 1>>, <<2, 2>>, <<1, 3>> },
    num_tree : 1..2,
    target_id : { <<0>>, <<-1>>, <<1>>, <<2>>, <<0, 0>>, <<0, 1>> },
    class_id : { <<0>>, <<-1>>, <<1>>, <<2>>, <<0, 1>> },
    base_scores : { <<0>>, <<0, 0>>, <<0, 0, 0, 0>> },
    threshold_type : { "kUInt32", "kFloat32", "kFloat64" },
    leaf_output_type : { "kUInt32", "kFloat32", "kFloat64" } ]

InitMetadata ==
  /\ builder = NoBuilder /\ err = "none" /\ committed = <<>> /\ started = <<>>
  /\ nStartNode = 0 /\ inflight = NoInput /\ loaded = NothingLoaded /\ nSerialize = 0
  /\ gtil = NoPredict
  /\ \E args \in MetadataArguments :
       ctor = [ phase |-> "arguments", args |-> args, by |-> "none",
                metadata |-> <<>>, tree_annotation |-> <<>> ]

\* model_builder::Metadata metadata{...}
ConstructMetadata ==
  /\ ctor.phase = "arguments"
  /\ \E r \in { Metadata(1, "kMultiClf", FALSE, ctor.args.num_target, ctor.args.num_class,
                          ctor.args.leaf_vector_shape) } :
       ctor' = IF r.ok THEN [ ctor EXCEPT !.phase = "metadata", !.metadata = r.metadata ]
               ELSE [ ctor EXCEPT !.phase = "rejected", !.by = "Metadata" ]
  /\ UNCHANGED <<builder, err, committed, started, nStartNode, inflight, loaded, nSerialize,
                 gtil>>

\* model_builder::TreeAnnotation tree_annotation{...}
ConstructTreeAnnotation ==
  /\ ctor.phase = "metadata"
  /\ \E r \in { TreeAnnotation(ctor.args.num_tree, ctor.args.target_id, ctor.args.class_id) } :
       ctor' = IF r.ok THEN [ ctor EXCEPT !.phase = "tree_annotation",
                                         !.tree_annotation = r.tree_annotation ]
               ELSE [ ctor EXCEPT !.phase = "rejected", !.by = "TreeAnnotation" ]
  /\ UNCHANGED <<builder, err, committed, started, nStartNode, inflight, loaded, nSerialize,
                 gtil>>

\* model_builder::GetModelBuilder(threshold_type, leaf_output_type, metadata,
\* tree_annotation, pred_transform, base_scores)
GetModelBuilder ==
  /\ ctor.phase = "tree_annotation"
  /\ \E alpha0 \in IndeterminateFloats, ratio0 \in IndeterminateFloats,
        node_id0 \in IndeterminateInts :
       \E r \in { InitializeModel(ctor.args.threshold_type,
                                   ctor.args.leaf_output_type, ctor.metadata,
                                   ctor.tree_annotation,
                                   [ name |-> STR_sigmoid, config |-> << >> ],
                                   ctor.args.base_scores, <<>>, alpha0, ratio0, node_id0) } :
         IF r.ok
           THEN ctor' = [ ctor EXCEPT !.phase = "builder" ] /\ builder' = r.b
           ELSE ctor' = [ ctor EXCEPT !.phase = "rejected", !.by = "ModelBuilderImpl" ]
                /\ UNCHANGED builder
  /\ UNCHANGED <<err, committed, started, nStartNode, inflight, loaded, nSerialize, gtil>>

NextMetadata ==
  \/ ConstructMetadata
  \/ ConstructTreeAnnotation
  \/ GetModelBuilder

SpecMetadata == InitMetadata /\ [][NextMetadata]_vars

\* the pairs of types a builder exists for
TypePairAccepted(args) ==
  <<args.threshold_type, args.leaf_output_type>>
    \in { <<"kFloat32", "kFloat32">>, <<"kFloat64", "kFloat64">> }

\* the conditions on the metadata of a builder
MetadataConditions(args) ==
  /\ args.num_target >= 1
  /\ Len(args.num_class) = args.num_target
  /\ \A i \in 1..Len(args.num_class) : args.num_class[i] >= 1
  /\ args.leaf_vector_shape[1] \in { 1, args.num_target }
  /\ args.leaf_vector_shape[2] \in { 1, MaxElement(args.num_class) }
  /\ Len(args.target_id) = args.num_tree
  /\ Len(args.class_id) = args.num_tree
  /\ Len(args.base_scores) = args.num_target * MaxElement(args.num_class)

\* C20: the construction of a builder of an accepted pair of types is
\* rejected only for metadata that does not meet the conditions, and a
\* builder exists only for metadata that meets them; no tree exists when
\* the metadata is rejected
C20_MetadataValidation ==
  /\ (ctor.phase = "rejected" /\ TypePairAccepted(ctor.args)) =>
       ~MetadataConditions(ctor.args) /\ builder = NoBuilder
  /\ ctor.phase = "builder" => MetadataConditions(ctor.args)

\* whether every target_id is -1 or a target and every class_id is -1 or a
\* class of its target (of some target, for a tree of all targets)
AnnotationInRange(args) ==
  \A i \in 1..args.num_tree :
    LET tid == args.target_id[i]
        cid == args.class_id[i]
    IN  /\ tid = -1 \/ (tid >= 0 /\ tid < args.num_target)
        /\ cid = -1 \/ (cid >= 0 /\ cid < (IF tid = -1 THEN MaxElement(args.num_class)
                                             ELSE args.num_class[tid + 1]))

\* C21: for types, metadata and base scores that pass every other
\* check, GetModelBuilder returns a builder exactly when every
\* target_id is -1 or in [0, num_target) and every class_id is -1 or in
\* [0, num_class[target_id])
C21_TreeAnnotationRange ==
  (/\ ctor.phase \in { "builder", "rejected" }
   /\ TypePairAccepted(ctor.args) /\ MetadataConditions(ctor.args)) =>
    (ctor.phase = "builder" <=> AnnotationInRange(ctor.args))

\* C22: a builder exists only for the pairs (float32, float32) and
\* (float64, float64) and is of the leaf output type asked for; for every
\* other pair the construction is rejected with no builder and no tree
C22_TypePairs ==
  /\ ctor.phase = "builder" =>
       TypePairAccepted(ctor.args) /\ builder.LeafOutputT = ctor.args.leaf_output_type
  /\ (ctor.phase \in { "builder", "rejected" } /\ ~TypePairAccepted(ctor.args)) =>
       ctor.phase = "rejected" /\ builder = NoBuilder

\* GetModelBuilder has rejected the pair (float32, float64) for metadata,
\* tree annotation and base scores that a builder of (float32, float32)
\* exists for
C22_Witness ==
  /\ ctor.phase = "rejected" /\ ctor.by = "ModelBuilderImpl"
  /\ ctor.args.threshold_type = "kFloat32" /\ ctor.args.leaf_output_type = "kFloat64"
  /\ MetadataConditions(ctor.args)
  /\ \A i \in 1..ctor.args.num_tree :
       /\ CheckLtU32(ctor.args.target_id[i], ctor.args.num_target)
       /\ CheckLtU32(ctor.args.class_id[i], ctor.args.num_class[ctor.args.target_id[i] + 1])

\* C23: directly after StartTree, with no node started, EndTree throws and
\* adds no tree to the model
C23_EmptyTreeRejected ==
  (builder.current_state_ = "kExpectNode" /\ started = <<>>) =>
    LET r == EndTree(builder)
    IN  ~r.ok /\ r.b.model_ = builder.model_

\* Model::GetVersion
GetVersion(model) == <<model.major_ver_, model.minor_ver_, model.patch_ver_>>

\* C24: a loaded model that is serialized, to a stream or to frames, and
\* deserialized again reports the version triple it reported before it
\* was serialized
C24_VersionPreserved ==
  loaded.status = "ok" =>
    \A kind \in { "stream", "pybuffer" } :
      \A s \in { Serialize(kind, loaded.model[1]) } :
        \A d \in { Deserialize(kind, s.data) } :
          s.ok /\ d.ok /\ GetVersion(d.model[1]) = GetVersion(loaded.model[1])

\* a model without what the serializer stamps on it: the version triple,
\* the type tags, the tree counter and the three extension-slot counters
WithoutStamps(model) ==
  [ model EXCEPT
      !.major_ver_ = 0, !.minor_ver_ = 0, !.patch_ver_ = 0,
      !.threshold_type_ = "kInvalid", !.leaf_output_type_ = "kInvalid",
      !.num_tree_ = 0, !.num_opt_field_per_model_ = 0,
      !.trees = [ i \in 1..Len(model.trees) |->
                    [ model.trees[i] EXCEPT !.num_opt_field_per_tree_ = 0,
                                            !.num_opt_field_per_node_ = 0 ] ] ]

\* C25: a serialization of the model, to a stream or to frames, leaves
\* every field of the model and every array of every tree as it was, the
\* stamps of the serializer excepted
C25_SerializeFrame ==
  [][nSerialize' # nSerialize => WithoutStamps(committed'[1]) = WithoutStamps(committed[1])]_vars

\* a model of a tree with a categorical test node was serialized twice and
\* carries the stamps
C25_Witness ==
  /\ nSerialize = 2
  /\ committed[1].num_tree_ = Len(committed[1].trees)
  /\ committed[1].threshold_type_ = committed[1].variant_threshold
  /\ \E i \in 1..Len(committed[1].trees) :
       /\ committed[1].trees[i].has_categorical_split_
       /\ Len(committed[1].trees[i].matching_categories_) > 0

(***************************************************************************)
(* Properties of the pools of a tree                                       *)
(***************************************************************************)
\* the trees of a model held in a unique_ptr (<<m>>, or <<>> when empty)
TreesOf(held) ==
  IF held = <<>> THEN {} ELSE { held[1].trees[i] : i \in 1..Len(held[1].trees) }

\* the trees the builder has made: those of its model, of the model it has
\* handed out and, between StartTree and EndTree, the one under construction
BuilderTrees ==
  TreesOf(builder.model_) \cup TreesOf(committed)
    \cup (IF builder.current_state_ \in { "kExpectTree", "kModelComplete" } THEN {}
          ELSE { builder.current_tree_ })

\* C26: the category list of every categorical test node of every tree of
\* the builder is strictly ascending
C26_CategoryListsStrictlyAscending ==
  \A t \in BuilderTrees : \A nid \in 0..(Len(t.node_type_) - 1) :
    t.node_type_[nid + 1] = "kCategoricalTestNode" =>
      LET list == CategoryList(t, nid)
      IN  \A i \in 1..(Len(list) - 1) : list[i] < list[i + 1]

\* whether a sequence of offsets never decreases
NonDecreasing(offsets) == \A i \in 1..(Len(offsets) - 1) : offsets[i] <= offsets[i + 1]

\* C27: in every tree of the builder the begin and the end offsets of the
\* leaf vectors and the offsets of the category lists never decrease over
\* the node ids, and every node has begin <= end <= length of the pool
C27_PoolOffsets ==
  \A t \in BuilderTrees :
    /\ NonDecreasing(t.leaf_vector_begin_)
    /\ NonDecreasing(t.leaf_vector_end_)
    /\ NonDecreasing(t.matching_categories_offset_)
    /\ \A n \in 1..Len(t.leaf_vector_begin_) :
         /\ t.leaf_vector_begin_[n] <= t.leaf_vector_end_[n]
         /\ t.leaf_vector_end_[n] <= Len(t.leaf_vector_)
    /\ \A n \in 1..Len(t.matching_categories_offset_) :
         t.matching_categories_offset_[n] <= Len(t.matching_categories_)

(***************************************************************************)
(* Properties of the deserializer on damaged input                         *)
(***************************************************************************)
\* the arrays of a tree that hold one entry per node
PerNodeArrays ==
  { "node_type_", "cleft_", "cright_", "split_index_", "default_left_", "leaf_value_",
    "threshold_", "cmp_", "category_list_right_child_", "leaf_vector_begin_",
    "leaf_vector_end_", "category_list_begin_", "category_list_end_", "data_count_",
    "data_count_present_", "sum_hess_", "sum_hess_present_", "gain_", "gain_present_" }

\* begin[n] <= end[n] <= length of the pool, for every node
OffsetsInPool(begin, end, pool) ==
  \A n \in 1..Len(begin) :
    n <= Len(end) => (begin[n] <= end[n] /\ end[n] <= Len(pool))

\* the invariants of the data model on one tree
TreeInvariant(t) ==
  /\ \A name \in PerNodeArrays : Len(Col(t, name)) = t.num_nodes
  /\ \A n \in 1..Len(t.cleft_) : t.cleft_[n] = -1 \/ t.cleft_[n] \in 0..(t.num_nodes - 1)
  /\ \A n \in 1..Len(t.cright_) : t.cright_[n] = -1 \/ t.cright_[n] \in 0..(t.num_nodes - 1)
  /\ OffsetsInPool(t.leaf_vector_begin_, t.leaf_vector_end_, t.leaf_vector_)
  /\ OffsetsInPool(Col(t, "category_list_begin_"), Col(t, "category_list_end_"),
                   t.matching_categories_)

\* the invariants of the data model on a model
ModelInvariant(model) ==
  /\ Len(model.trees) = model.num_tree_
  /\ \A i \in 1..Len(model.trees) : TreeInvariant(model.trees[i])

\* the input cut after its first k integers (stream) or frames (buffer)
Truncated(data, k) == SubSeq(data, 1, k)

\* the input with the integer at position p of a stream, or the first item
\* of frame p of a framed buffer, raised by one
Altered(kind, data, p) ==
  IF kind = "stream" THEN [ data EXCEPT ![p] = @ + 1 ]
  ELSE IF data[p].nitem = 0 THEN data
  ELSE [ data EXCEPT ![p].buf[1] = @ + 1 ]

\* C28: deserialization of a checkpoint, of the checkpoint cut short and of
\* the checkpoint with one stored integer changed either fails or returns
\* a model that satisfies the invariants of the data model; a checkpoint
\* cut short never yields a model
C28_DeserializeAllOrNothing ==
  inflight # NoInput =>
    /\ \A k \in 0..(Len(inflight.data) - 1) :
         \A d \in { Deserialize(inflight.kind, Truncated(inflight.data, k)) } : ~d.ok
    /\ \A p \in 0..Len(inflight.data) :
         \A d \in { Deserialize(inflight.kind,
                                 IF p = 0 THEN inflight.data
                                 ELSE Altered(inflight.kind, inflight.data, p)) } :
           d.ok => ModelInvariant(d.model[1])

(***************************************************************************)
(* Properties of the key map of the builder                                *)
(***************************************************************************)
\* the position of the last StartNode(k) among the StartNode calls of the
\* tree under construction
LastStarted(k) ==
  CHOOSE i \in 1..Len(started) :
    started[i] = k /\ \A j \in (i + 1)..Len(started) : started[j] # k

\* C29: the key map is per tree: between two trees it is empty, and within
\* a tree it holds exactly the keys passed to StartNode in that tree, each
\* with the internal id the calls of that tree alone determine (the i-th
\* StartNode of a tree allocates node i, whatever trees were built before)
C29_KeyMapPerTree ==
  /\ builder.current_state_ \in { "kExpectTree", "kModelComplete" } =>
       builder.node_id_map_ = EmptyMap
  /\ builder.current_state_ \in { "kExpectNode", "kExpectDetail", "kNodeComplete" } =>
       /\ DOMAIN builder.node_id_map_ = { started[i] : i \in 1..Len(started) }
       /\ \A k \in DOMAIN builder.node_id_map_ :
            builder.node_id_map_[k] = LastStarted(k)

\* a second tree is under construction, after a first tree in which
\* StartNode was called, and StartNode was called in the second tree too
C29_Witness ==
  /\ builder.current_state_ \in { "kExpectNode", "kExpectDetail", "kNodeComplete" }
  /\ TreesBuilt(builder) = 1
  /\ builder.model_[1].trees[1].num_nodes = 2
  /\ started # <<>>

(***************************************************************************)
(* The XGBoost loader and the post-processor registry: the loader stores   *)
(* in the model the post-processor name it derives from the objective,     *)
(* and prediction looks the stored name up in the registry                 *)
(***************************************************************************)
\* the objectives GetPredTransform names, and one it does not
XGBoostObjectives ==
  { "multi:softmax", "multi:softprob", "reg:logistic", "binary:logistic",
    "count:poisson", "reg:gamma", "reg:tweedie", "survival:cox", "survival:aft",
    "binary:hinge", "reg:squarederror", "reg:linear", "reg:squaredlogerror",
    "reg:pseudohubererror", "binary:logitraw", "rank:pairwise", "rank:ndcg", "rank:map",
    "reg:absoluteerror" }

\* xgboost::GetPredTransform: [ok, name], ok FALSE for the fatal error
GetPredTransform(objective_name) ==
  IF objective_name = "multi:softmax" THEN [ ok |-> TRUE, name |-> "max_index" ]
  ELSE IF objective_name = "multi:softprob" THEN [ ok |-> TRUE, name |-> "softmax" ]
  ELSE IF objective_name \in { "reg:logistic", "binary:logistic" }
    THEN [ ok |-> TRUE, name |-> "sigmoid" ]
  ELSE IF objective_name \in { "count:poisson", "reg:gamma", "reg:tweedie", "survival:cox",
                               "survival:aft" }
    THEN [ ok |-> TRUE, name |-> "exponential" ]
  ELSE IF objective_name = "binary:hinge" THEN [ ok |-> TRUE, name |-> "hinge" ]
  ELSE IF objective_name \in { "reg:squarederror", "reg:linear", "reg:squaredlogerror",
                               "reg:pseudohubererror", "binary:logitraw", "rank:pairwise",
                               "rank:ndcg", "rank:map" }
    THEN [ ok |-> TRUE, name |-> "identity" ]
  ELSE [ ok |-> FALSE, name |-> "" ]

\* xgboost::TransformBaseScoreToMargin: the margin as the function applied
\* to the base score
TransformBaseScoreToMargin(pred_transform, base_score) ==
  IF pred_transform = "sigmoid" THEN [ fn |-> "ProbToMargin::Sigmoid", x |-> base_score ]
  ELSE IF pred_transform = "exponential"
    THEN [ fn |-> "ProbToMargin::Exponential", x |-> base_score ]
  ELSE [ fn |-> "none", x |-> base_score ]

\* the prefix of an objective up to its colon
ObjectivePrefix(objective_name) ==
  IF objective_name \in { "binary:hinge", "binary:logistic", "binary:logitraw" } THEN "binary:"
  ELSE IF objective_name \in { "rank:pairwise", "rank:ndcg", "rank:map" } THEN "rank:"
  ELSE "other"

\* what the parser hands to LearnerHandler::EndObject: the objective, the
\* learner parameters and the trees' summary
LearnerInputs ==
  [ objective : XGBoostObjectives,
    num_class : { 1, 3 }, num_target : { 1, 2 }, num_feature : { 2 },
    base_score : { 5 }, size_leaf_vector : { 1, 3 },
    tree_info : { <<0, 0>>, <<0, 1>> }, version : { <<>>, <<0, 9>>, <<2, 0>> } ]

\* LearnerHandler::EndObject: [ok, model]
EndObject(in) ==
  LET num_tree == Len(in.tree_info)
      p == GetPredTransform(in.objective)
      multi == in.num_class > 1
      vector == in.size_leaf_vector > 1
      need_transform_to_margin == in.version = <<>> \/ in.version[1] >= 1
      base_score == IF need_transform_to_margin
                      THEN TransformBaseScoreToMargin(p.name, in.base_score)
                      ELSE [ fn |-> "none", x |-> in.base_score ]
      ok == /\ p.ok
            /\ multi => in.num_target = 1
            /\ (~multi /\ vector) => in.num_target = in.size_leaf_vector
            /\ (~multi /\ ~vector) =>
                  \A i \in 1..num_tree : in.tree_info[i] = (i - 1) % in.num_target
            /\ in.num_target = 1 \/ in.num_class = 1
  IN  IF ~ok THEN [ ok |-> FALSE, model |-> <<>> ]
      ELSE [ ok |-> TRUE,
             model |-> << [
               num_feature |-> in.num_feature,
               average_tree_output |-> FALSE,
               num_target |-> in.num_target,
               pred_transform |-> p.name,
               task_type |-> IF multi THEN "kMultiClf"
                             ELSE IF ObjectivePrefix(in.objective) = "binary:" THEN "kBinaryClf"
                             ELSE IF ObjectivePrefix(in.objective) = "rank:"
                               THEN "kLearningToRank"
                             ELSE "kRegressor",
               num_class |-> IF multi THEN <<in.num_class>>
                             ELSE [ i \in 1..in.num_target |-> 1 ],
               target_id |-> IF multi THEN [ i \in 1..num_tree |-> 0 ]
                             ELSE IF vector THEN [ i \in 1..num_tree |-> -1 ]
                             ELSE in.tree_info,
               class_id |-> IF ~multi THEN [ i \in 1..num_tree |-> 0 ]
                            ELSE IF vector THEN [ i \in 1..num_tree |-> -1 ]
                            ELSE in.tree_info,
               leaf_vector_shape |-> IF multi THEN <<1, in.size_leaf_vector>>
                                     ELSE IF vector THEN <<in.num_target, 1>>
                                     ELSE <<1, 1>>,
               base_scores |-> [ i \in 1..(in.num_target * in.num_class) |-> base_score ]
             ] >> ]

\* the names gtil::GetPredTransformFunc resolves
PredTransformFuncNames ==
  { "identity", "signed_square", "hinge", "sigmoid", "exponential",
    "exponential_standard_ratio", "logarithm_one_plus_exp", "identity_multiclass",
    "softmax", "multiclass_ova" }

\* gtil::GetPredTransformFunc: the function of the name, or the fatal
\* error "Post-processor named ... not found"
GetPredTransformFunc(name) ==
  IF name \in PredTransformFuncNames
    THEN [ ok |-> TRUE, func |-> name ]
    ELSE [ ok |-> FALSE, func |-> "nullptr" ]

InitLoader ==
  /\ builder = NoBuilder /\ err = "none" /\ committed = <<>> /\ started = <<>>
  /\ nStartNode = 0 /\ nSerialize = 0 /\ ctor = NoConstruction
  /\ loaded = NothingLoaded
  /\ gtil = NoPredict
  /\ \E in \in LearnerInputs : inflight = [ kind |-> "xgboost_json", learner |-> in ]

\* the loader reaches the end of the learner object
LearnerHandlerEndObject ==
  /\ inflight # NoInput
  /\ \E r \in { EndObject(inflight.learner) } :
       loaded' = [ status |-> IF r.ok THEN "ok" ELSE "error", model |-> r.model,
                   objective |-> inflight.learner.objective ]
  /\ inflight' = NoInput
  /\ UNCHANGED <<builder, err, committed, started, nStartNode, nSerialize, ctor, gtil>>

\* default prediction on the loaded model looks its post-processor up
PredictDefault ==
  /\ loaded.status = "ok"
  /\ gtil = NoPredict
  /\ \E f \in { GetPredTransformFunc(loaded.model[1].pred_transform) } :
       gtil' = [ phase |-> IF f.ok THEN "postprocess" ELSE "fatal", func |-> f.func ]
  /\ UNCHANGED <<builder, err, committed, started, nStartNode, inflight, loaded, nSerialize,
                 ctor>>

NextLoader ==
  \/ LearnerHandlerEndObject
  \/ PredictDefault

SpecLoader == InitLoader /\ [][NextLoader]_vars

\* C30: default prediction on a model the XGBoost loader has loaded never
\* fails with an unknown post-processor: the name the loader stored is a
\* name the registry resolves
C30_StoredPostProcessorResolved ==
  /\ loaded.status = "ok" => GetPredTransformFunc(loaded.model[1].pred_transform).ok
  /\ gtil # NoPredict => gtil.phase # "fatal"

====
